---- MODULE Spec2Model ----
(***************************************************************************)
(* A model of the MCP Observability Server (mos):                          *)
(*   - SessionManager (session-manager.js): sessions, bounded event        *)
(*     histories, derived session state;                                   *)
(*   - ErrorHandler (error-handler.js): the wrapper returned by            *)
(*     wrapWithErrorHandling with timeout, retry and circuit breaker;      *)
(*   - ActivityStreamer (activity-streamer.js): streams, replay buffers    *)
(*     and the synchronous delivery of stream_update events to listeners.  *)
(*   - the activity tree (buildActivityTree), its formatting (formatter.js) *)
(*     and the export_session tool of the server (server.js).              *)
(*   - HealthMonitor (health-monitor.js): request metrics and the overall  *)
(*     health status derived from them.                                    *)
(*                                                                         *)
(* Conventions.  A JavaScript Map is a function whose DOMAIN is the set of *)
(* keys present.  A uuid is a fresh positive integer; 0 stands for a       *)
(* null/undefined id.  An ISO timestamp is the millisecond count it        *)
(* denotes (toISOString / new Date(iso).getTime() round-trip exactly at    *)
(* millisecond precision); 0 stands for an absent (falsy) timestamp.  An   *)
(* absent (falsy) string is "".                                            *)
(***************************************************************************)
EXTENDS Integers, Sequences, FiniteSets, TLC

VARIABLES
    sessions,        \* SessionManager.sessions       : Map sessionId -> session
    sessionEvents,   \* SessionManager.sessionEvents  : Map sessionId -> array of events
    maxEventsPerSession, \* SessionManager.maxEventsPerSession
    nextId,          \* the next uuid uuidv4() hands out
    now,             \* Date.now()
    opCount,         \* history: SessionManager calls made so far
    appended,        \* history: per session, the ids addEvent stored, in order
    lastOp,          \* history: the last SessionManager call, its arguments and result
    circuitBreakers, \* ErrorHandler.circuitBreakers : Map context -> breaker
    calls,           \* the invocations of wrapped functions, each at its await point
    isProduction,    \* process.env.NODE_ENV === 'production'
    streak,          \* history: per breaker context, failed invocations since the last success
    streams,         \* ActivityStreamer.streams        : Map streamId -> stream config
    sessionStreams,  \* ActivityStreamer.sessionStreams : Map sessionId -> Set of streamIds
    eventBuffer,     \* ActivityStreamer.eventBuffer    : Map sessionId -> array of events
    bufferSize,      \* ActivityStreamer.bufferSize
    streamOps,       \* history: ActivityStreamer calls made so far
    invoked,         \* history: the broadcastEvent calls, in invocation order
    sends,           \* history: the sendEventToStream calls that reached an active stream
    emitted,         \* history: the stream_update events emitted, in order
    lastStreamOp,    \* history: the last ActivityStreamer call and its arguments
    healthMetrics,   \* HealthMonitor.metrics (requests and memory)
    alertThresholds  \* HealthMonitor.alertThresholds

storeVars == <<sessions, sessionEvents, maxEventsPerSession, nextId, opCount, appended, lastOp>>

ehVars == <<circuitBreakers, calls, isProduction, streak>>

streamVars == <<streams, sessionStreams, eventBuffer, bufferSize, streamOps,
                invoked, sends, emitted, lastStreamOp>>

healthVars == <<healthMetrics, alertThresholds>>

vars == <<sessions, sessionEvents, maxEventsPerSession, nextId, now, opCount, appended, lastOp,
          circuitBreakers, calls, isProduction, streak,
          streams, sessionStreams, eventBuffer, bufferSize, streamOps,
          invoked, sends, emitted, lastStreamOp, healthMetrics, alertThresholds>>

(***************************************************************************)
(* Bounds of the model.                                                    *)
(***************************************************************************)
\* options.maxEventsPerSession the SessionManager is constructed with
MaxEventsPerSession == 2

\* SessionManager calls explored in one behaviour
MaxOps == 3

\* failures a circuit breaker counts in one behaviour
MaxFailures == 7

\* clock steps explored by the error handler
MaxTicks == 3

\* options.bufferSize the ActivityStreamer is constructed with
BufferSize == 2

\* options.sessionTimeoutMs the SessionManager is constructed with, in clock steps
SessionTimeoutTicks == 1

\* ActivityStreamer calls explored in one behaviour
MaxStreamOps == 3

\* broadcastEvent calls explored in one behaviour of the replay runs
MaxBroadcasts == 23

\* recordRequest calls explored in one behaviour
MaxRequests == 3

(***************************************************************************)
(* Program constants.                                                      *)
(***************************************************************************)
\* options.maxEventsPerSession || 1000
DefaultMaxEvents == 1000

\* options.sessionTimeoutMs || 24 hours (ms)
DefaultSessionTimeoutMs == 86400000

\* circuit breaker cool-down, breaker.timeout (ms)
BreakerTimeout == 60000

\* circuit breaker threshold, breaker.threshold
BreakerThreshold == 5

\* one step of the clock: a cool-down window
TickMs == BreakerTimeout

SessionIds == {"s1", "s2"}

NoId == 0

NoTime == 0

(***************************************************************************)
(* types.js                                                                *)
(***************************************************************************)
EVENT_TYPES ==
    { "task_started", "task_progress", "task_complete", "task_failed",
      "tool_pre_call", "tool_post_call", "tool_error",
      "mcp_request", "mcp_response", "mcp_error",
      "subagent_spawn", "subagent_complete", "subagent_failed" }

EVENT_STATUS == { "started", "running", "success", "error", "timeout" }

SESSION_STATUS == { "active", "paused", "completed", "failed" }

\* event_type.startsWith('tool_')
IsToolType(t) == t \in { "tool_pre_call", "tool_post_call", "tool_error" }

\* event_type.startsWith('task_')
IsTaskType(t) ==
    t \in { "task_started", "task_progress", "task_complete", "task_failed" }

\* event_type.startsWith('mcp_')
IsMcpType(t) == t \in { "mcp_request", "mcp_response", "mcp_error" }

\* EVENT_ICONS[eventType] || the blue circle; an icon is written by its name
EventIcon(eventType) ==
    CASE eventType = "task_started" -> "arrows"
      [] eventType = "task_complete" -> "check"
      [] eventType = "task_failed" -> "cross"
      [] eventType \in { "tool_pre_call", "tool_post_call" } -> "wrench"
      [] eventType = "tool_error" -> "warning"
      [] eventType \in { "mcp_request", "mcp_response" } -> "antenna"
      [] eventType = "mcp_error" -> "red_circle"
      [] eventType \in { "subagent_spawn", "subagent_complete" } -> "robot"
      [] eventType = "subagent_failed" -> "no_entry"
      [] OTHER -> "blue_circle"

\* STATUS_COLORS[status] || 'default'
StatusColor(status) ==
    CASE status \in { "started", "running" } -> "blue"
      [] status = "success" -> "green"
      [] status = "error" -> "red"
      [] status = "timeout" -> "yellow"
      [] OTHER -> "default"

\* display_info: null
NoDisplayInfo == << >>

\* createEvent: displayInfo || { icon, color, indent_level: 0, should_collapse: false }
defaultDisplayInfo(eventType, status) ==
    [ icon |-> EventIcon(eventType), color |-> StatusColor(status),
      indent_level |-> 0, should_collapse |-> FALSE ]

\* createEvent({sessionId, eventType, status, parentId, duration, details}):
\* the object a caller hands to addEvent.  ts is the timestamp field
\* (NoTime when the caller leaves it out).
createEvent(sessionId, eventType, status, parentId, duration, details, ts) ==
    [ timestamp   |-> ts,
      session_id  |-> sessionId,
      event_type  |-> eventType,
      status      |-> status,
      duration_ms |-> duration,
      parent_id   |-> parentId,
      details     |-> details,
      display_info |-> defaultDisplayInfo(eventType, status) ]

\* createSession(sessionId, rootTask) of types.js, called at time t
createSession(sessionId, rootTask, t) ==
    [ id                |-> sessionId,
      start_time        |-> t,
      status            |-> "active",
      root_task         |-> rootTask,
      active_operations |-> << >>,
      metrics           |-> [ total_tools_used  |-> 0,
                              total_mcp_calls   |-> 0,
                              total_duration_ms |-> 0,
                              error_count       |-> 0 ] ]

\* validateDisplayInfo(displayInfo): only the fields name, description, icon
\* and color are allowed; the icons and colours of the model are within the
\* length limits
validateDisplayInfo(displayInfo) ==
    DOMAIN displayInfo \subseteq { "name", "description", "icon", "color" }

\* validateEvent(event) with an early exit dropped: the status field is not
\* checked against EVENT_STATUS
validateEvent_anyStatus(event) ==
    /\ event.timestamp # NoTime
    /\ event.session_id # ""
    /\ event.event_type \in EVENT_TYPES
    /\ event.duration_ms >= 0
    /\ event.display_info # NoDisplayInfo => validateDisplayInfo(event.display_info)

\* validateEvent(event): the required fields are present (an absent timestamp
\* is NoTime, an absent or empty session id is ""), event_type and status
\* are enumerated values, the timestamp parses, and duration_ms is not
\* negative.  parent_id is null (NoId) or the id of an event, and details is
\* a flat object, so their checks pass on every event of the model;
\* display_info, when it is not null, must pass validateDisplayInfo.
validateEvent(event) ==
    /\ event.timestamp # NoTime
    /\ event.session_id # ""
    /\ event.event_type \in EVENT_TYPES
    /\ event.status \in EVENT_STATUS
    /\ event.duration_ms >= 0
    /\ event.display_info # NoDisplayInfo => validateDisplayInfo(event.display_info)

(***************************************************************************)
(* Inputs: the events callers submit.                                      *)
(***************************************************************************)
NoDetails == [ task_name |-> "", name |-> "" ]

\* a timestamp supplied by the caller
CallerTs == TickMs \div 3

\* (event_type, status) pairs submitted with default fields
PlainPairs ==
    { <<"task_progress", "running">>, <<"task_complete", "success">>,
      <<"task_failed", "error">>,     <<"tool_post_call", "timeout">>,
      <<"mcp_response", "success">> }

InputEvents(s) ==
    { createEvent(s, p[1], p[2], NoId, 0, NoDetails, CallerTs) : p \in PlainPairs }
    \cup
    \* children of the first stored event, a named tool call and its conclusion
    { createEvent(s, "tool_pre_call", "started", 1, 0,
                  [ task_name |-> "", name |-> "file_read" ], CallerTs),
      createEvent(s, "tool_post_call", "success", 1, 7,
                  [ task_name |-> "", name |-> "file_read" ], CallerTs) }
    \cup
    \* no timestamp, a task-name hint for the auto-created session
    { createEvent(s, "task_started", "started", NoId, 0,
                  [ task_name |-> "T", name |-> "T" ], NoTime) }

\* statuses callers pass to updateSessionStatus
StatusInputs == { "paused", "completed" }

RootTasks == { "Unknown Task", "Root Task" }

(***************************************************************************)
(* SessionManager                                                          *)
(***************************************************************************)
\* Map.set(k, v)
MapSet(m, k, v) == [ x \in (DOMAIN m) \cup {k} |-> IF x = k THEN v ELSE m[x] ]

\* a || b on strings
OrElse(a, b) == IF a = "" THEN b ELSE a

\* constructor: this.maxEventsPerSession = options.maxEventsPerSession || 1000
configuredMaxEvents(option) ==
    IF option = 0 THEN DefaultMaxEvents ELSE option

\* constructor: this.sessionTimeoutMs = options.sessionTimeoutMs || 24 * 60 * 60 * 1000
sessionTimeoutMs ==
    IF SessionTimeoutTicks = 0 THEN DefaultSessionTimeoutMs
    ELSE SessionTimeoutTicks * TickMs

\* eventWithId with the caller's timestamp always overwritten by the clock
eventWithId_stamped(event, id, t) ==
    [ f \in (DOMAIN event) \cup {"id", "timestamp"} |->
        IF f = "id" THEN id ELSE IF f = "timestamp" THEN t ELSE event[f] ]

\* addEvent: eventWithId = { ...event, id: uuidv4(), timestamp: event.timestamp || now }
eventWithId(event, id, t) ==
    [ f \in (DOMAIN event) \cup {"id", "timestamp"} |->
        IF f = "id" THEN id
        ELSE IF f = "timestamp"
             THEN (IF event.timestamp = NoTime THEN t ELSE event.timestamp)
             ELSE event[f] ]

\* pushBounded evicting one entry too early (>= in place of >)
pushBounded_early(events, e, max) ==
    LET pushed == Append(events, e)
    IN  IF Len(pushed) >= max THEN Tail(pushed) ELSE pushed

\* addEvent: events.push(e); if (events.length > max) events.shift()
pushBounded(events, e, max) ==
    LET pushed == Append(events, e)
    IN  IF Len(pushed) > max THEN Tail(pushed) ELSE pushed

\* a filter that drops the most recent entry whatever its id
withoutOp_latest(ops, id) ==
    IF ops = << >> THEN << >> ELSE SubSeq(ops, 1, Len(ops) - 1)

\* array.filter(op => op.id !== id)
RECURSIVE withoutOp(_, _)
withoutOp(ops, id) ==
    IF ops = << >> THEN << >>
    ELSE IF Head(ops).id # id
         THEN <<Head(ops)>> \o withoutOp(Tail(ops), id)
         ELSE withoutOp(Tail(ops), id)

\* metricsAfter counting an error only for the event types that denote one
metricsAfter_typed(metrics, event) ==
    [ metrics EXCEPT
        !.total_tools_used =
            IF IsToolType(event.event_type) /\ event.status = "success" THEN @ + 1 ELSE @,
        !.total_mcp_calls =
            IF IsMcpType(event.event_type) /\ event.status = "success" THEN @ + 1 ELSE @,
        !.error_count =
            IF event.status = "error" /\ event.event_type \in { "tool_error", "mcp_error" }
            THEN @ + 1 ELSE @ ]

\* updateSessionFromEvent: "Update metrics"
metricsAfter(metrics, event) ==
    [ metrics EXCEPT
        !.total_tools_used =
            IF IsToolType(event.event_type) /\ event.status = "success" THEN @ + 1 ELSE @,
        !.total_mcp_calls =
            IF IsMcpType(event.event_type) /\ event.status = "success" THEN @ + 1 ELSE @,
        !.error_count =
            IF event.status = "error" THEN @ + 1 ELSE @ ]

\* updateSessionFromEvent: "Update active operations"
activeOperationsAfter(ops, event) ==
    IF event.status \in { "started", "running" }
    THEN Append(withoutOp(ops, event.id),
                [ id      |-> event.id,
                  type    |-> event.event_type,
                  name    |-> OrElse(event.details.name, event.event_type),
                  started |-> event.timestamp ])
    ELSE IF event.status \in { "success", "error", "timeout" }
         THEN withoutOp(ops, event.id)
         ELSE ops

\* statusAfter completing the session without looking at active_operations
statusAfter_unchecked(status, ops, event) ==
    IF event.event_type = "task_started" THEN "active"
    ELSE IF event.event_type = "task_complete" THEN "completed"
         ELSE IF event.event_type = "task_failed" THEN "failed"
              ELSE status

\* updateSessionFromEvent: "Auto-update session status based on events";
\* ops is session.active_operations after the update above
statusAfter(status, ops, event) ==
    IF event.event_type = "task_started" THEN "active"
    ELSE IF event.event_type = "task_complete"
         THEN (IF Len(ops) = 0 THEN "completed" ELSE status)
         ELSE IF event.event_type = "task_failed" THEN "failed"
              ELSE status

\* updateSessionFromEvent(sessionId, event) on the session record
updateSessionFromEvent(session, event) ==
    LET ops == activeOperationsAfter(session.active_operations, event)
    IN  [ session EXCEPT
            !.metrics           = metricsAfter(@, event),
            !.active_operations = ops,
            !.status            = statusAfter(@, ops, event) ]

\* the null getSession returns
NoSession == [ id |-> "" ]

\* getSession(sessionId): this.sessions.get(sessionId) || null
getSession(sessionId) ==
    IF sessionId \in DOMAIN sessions THEN sessions[sessionId] ELSE NoSession

\* getSession(sessionId) is sessions[sessionId] when present
hasSession(sessionId) == sessionId \in DOMAIN sessions

\* getSessionEvents(sessionId) with no filter
getSessionEvents(sessionId) ==
    IF sessionId \in DOMAIN sessionEvents THEN sessionEvents[sessionId] ELSE << >>

\* createSession(sessionId, rootTask) without the check for an existing session
SessionManager_createSession_overwrite(sessionId, rootTask) ==
    /\ opCount < MaxOps
    /\ opCount' = opCount + 1
    /\ sessions' = MapSet(sessions, sessionId, createSession(sessionId, rootTask, now))
    /\ sessionEvents' = MapSet(sessionEvents, sessionId, << >>)
    /\ appended' = [ appended EXCEPT ![sessionId] = << >> ]
    /\ lastOp' = [ op |-> "createSession", sessionId |-> sessionId,
                   rootTask |-> rootTask, at |-> now,
                   existed |-> hasSession(sessionId),
                   ret |-> createSession(sessionId, rootTask, now),
                   before |-> [ sessions |-> sessions, sessionEvents |-> sessionEvents ] ]
    /\ UNCHANGED <<nextId, now>>
    /\ UNCHANGED maxEventsPerSession
    /\ UNCHANGED ehVars
    /\ UNCHANGED healthVars
    /\ UNCHANGED streamVars

\* createSession(sessionId, rootTask)
SessionManager_createSession(sessionId, rootTask) ==
    /\ opCount < MaxOps
    /\ opCount' = opCount + 1
    /\ IF hasSession(sessionId)
       THEN UNCHANGED <<sessions, sessionEvents, appended>>
       ELSE /\ sessions' = MapSet(sessions, sessionId,
                                  createSession(sessionId, rootTask, now))
            /\ sessionEvents' = MapSet(sessionEvents, sessionId, << >>)
            /\ appended' = [ appended EXCEPT ![sessionId] = << >> ]
    /\ lastOp' = [ op |-> "createSession", sessionId |-> sessionId,
                   rootTask |-> rootTask, at |-> now,
                   existed |-> hasSession(sessionId),
                   ret |-> IF hasSession(sessionId) THEN sessions[sessionId]
                           ELSE createSession(sessionId, rootTask, now),
                   before |-> [ sessions |-> sessions, sessionEvents |-> sessionEvents ] ]
    /\ UNCHANGED <<nextId, now>>
    /\ UNCHANGED maxEventsPerSession
    /\ UNCHANGED ehVars
    /\ UNCHANGED healthVars
    /\ UNCHANGED streamVars

\* updateSessionStatus creating the session it does not find
updateSessionStatus_creating(sessionId, status) ==
    /\ opCount < MaxOps
    /\ opCount' = opCount + 1
    /\ sessions' = MapSet(sessions, sessionId,
                          [ (IF hasSession(sessionId) THEN sessions[sessionId]
                             ELSE createSession(sessionId, "Unknown Task", now))
                            EXCEPT !.status = status ])
    /\ lastOp' = [ op |-> "updateSessionStatus", sessionId |-> sessionId,
                   status |-> status, at |-> now, existed |-> hasSession(sessionId),
                   before |-> [ sessions |-> sessions, sessionEvents |-> sessionEvents ] ]
    /\ UNCHANGED <<sessionEvents, nextId, now, appended>>
    /\ UNCHANGED maxEventsPerSession
    /\ UNCHANGED ehVars
    /\ UNCHANGED healthVars
    /\ UNCHANGED streamVars

\* updateSessionStatus(sessionId, status)
updateSessionStatus(sessionId, status) ==
    /\ opCount < MaxOps
    /\ opCount' = opCount + 1
    /\ IF hasSession(sessionId)
       THEN sessions' =
              [ sessions EXCEPT ![sessionId] =
                  IF status \in { "completed", "failed" }
                  THEN [ f \in (DOMAIN @) \cup {"end_time"} |->
                           IF f = "end_time" THEN now
                           ELSE IF f = "status" THEN status
                           ELSE IF f = "metrics"
                                THEN [ @.metrics EXCEPT
                                         !.total_duration_ms = now - sessions[sessionId].start_time ]
                                ELSE @[f] ]
                  ELSE [ @ EXCEPT !.status = status ] ]
       ELSE UNCHANGED sessions
    /\ lastOp' = [ op |-> "updateSessionStatus", sessionId |-> sessionId,
                   status |-> status, at |-> now, existed |-> hasSession(sessionId),
                   before |-> [ sessions |-> sessions, sessionEvents |-> sessionEvents ] ]
    /\ UNCHANGED <<sessionEvents, nextId, now, appended>>
    /\ UNCHANGED maxEventsPerSession
    /\ UNCHANGED ehVars
    /\ UNCHANGED healthVars
    /\ UNCHANGED streamVars

\* the body of addEvent(sessionId, event): what the call writes
addEventWrites(sessionId, event) ==
    LET created  == IF hasSession(sessionId) THEN sessions
                    ELSE MapSet(sessions, sessionId,
                                createSession(sessionId,
                                              OrElse(event.details.task_name, "Unknown Task"),
                                              now))
        evMap    == IF hasSession(sessionId) THEN sessionEvents
                    ELSE MapSet(sessionEvents, sessionId, << >>)
        stored   == eventWithId(event, nextId, now)
    IN  /\ opCount < MaxOps
        /\ opCount' = opCount + 1
        /\ IF sessionId \notin DOMAIN evMap
           THEN \* if (!events) return;
                /\ sessions' = created
                /\ sessionEvents' = evMap
                /\ UNCHANGED <<nextId, appended>>
                /\ lastOp' = [ op |-> "addEvent", sessionId |-> sessionId,
                               event |-> event, at |-> now, stored |-> FALSE ]
           ELSE /\ sessionEvents' =
                      [ evMap EXCEPT ![sessionId] = pushBounded(@, stored, maxEventsPerSession) ]
                /\ sessions' =
                      [ created EXCEPT ![sessionId] = updateSessionFromEvent(@, stored) ]
                /\ nextId' = nextId + 1
                /\ appended' =
                      [ appended EXCEPT ![sessionId] =
                          IF hasSession(sessionId) THEN Append(@, stored.id)
                          ELSE <<stored.id>> ]
                /\ lastOp' = [ op |-> "addEvent", sessionId |-> sessionId,
                               event |-> event, at |-> now, stored |-> TRUE,
                               ret |-> stored, existed |-> hasSession(sessionId) ]

\* addEvent(sessionId, event)
addEvent(sessionId, event) ==
    /\ addEventWrites(sessionId, event)
    /\ UNCHANGED now
    /\ UNCHANGED maxEventsPerSession
    /\ UNCHANGED ehVars
    /\ UNCHANGED healthVars
    /\ UNCHANGED streamVars

\* cleanup: the sessions with sessionAge > sessionTimeoutMs at time t, with
\* >= in place of >
expiredSessions_inclusive(t) ==
    { s \in DOMAIN sessions : t - sessions[s].start_time >= sessionTimeoutMs }

\* cleanup: toDelete, the sessions with sessionAge > sessionTimeoutMs at time t
expiredSessions(t) ==
    { s \in DOMAIN sessions : t - sessions[s].start_time > sessionTimeoutMs }

\* cleanup that also drops the replay buffers of the sessions it removes
cleanup_withBuffers ==
    LET toDelete == expiredSessions(now)
    IN  /\ opCount < MaxOps
        /\ opCount' = opCount + 1
        /\ sessions' = [ s \in (DOMAIN sessions) \ toDelete |-> sessions[s] ]
        /\ sessionEvents' =
              [ s \in (DOMAIN sessionEvents) \ toDelete |-> sessionEvents[s] ]
        /\ appended' = [ s \in SessionIds |->
                           IF s \in toDelete THEN << >> ELSE appended[s] ]
        /\ lastOp' = [ op |-> "cleanup", at |-> now, removed |-> toDelete ]
        /\ eventBuffer' = [ s \in (DOMAIN eventBuffer) \ toDelete |-> eventBuffer[s] ]
        /\ UNCHANGED <<streams, sessionStreams, bufferSize, streamOps,
                       invoked, sends, emitted, lastStreamOp>>
        /\ UNCHANGED <<nextId, now>>
        /\ UNCHANGED maxEventsPerSession
        /\ UNCHANGED ehVars
        /\ UNCHANGED healthVars

\* cleanup deleting the session records and leaving their histories
cleanup_recordsOnly ==
    LET toDelete == expiredSessions(now)
    IN  /\ opCount < MaxOps
        /\ opCount' = opCount + 1
        /\ sessions' = [ s \in (DOMAIN sessions) \ toDelete |-> sessions[s] ]
        /\ appended' = [ s \in SessionIds |->
                           IF s \in toDelete THEN << >> ELSE appended[s] ]
        /\ lastOp' = [ op |-> "cleanup", at |-> now, removed |-> toDelete ]
        /\ UNCHANGED <<sessionEvents, nextId, now>>
        /\ UNCHANGED maxEventsPerSession
        /\ UNCHANGED ehVars
        /\ UNCHANGED healthVars
        /\ UNCHANGED streamVars

\* cleanup(): sessions.delete and sessionEvents.delete for every id in toDelete
cleanup ==
    LET toDelete == expiredSessions(now)
    IN  /\ opCount < MaxOps
        /\ opCount' = opCount + 1
        /\ sessions' = [ s \in (DOMAIN sessions) \ toDelete |-> sessions[s] ]
        /\ sessionEvents' =
              [ s \in (DOMAIN sessionEvents) \ toDelete |-> sessionEvents[s] ]
        /\ appended' = [ s \in SessionIds |->
                           IF s \in toDelete THEN << >> ELSE appended[s] ]
        /\ lastOp' = [ op |-> "cleanup", at |-> now, removed |-> toDelete ]
        /\ UNCHANGED <<nextId, now>>
        /\ UNCHANGED maxEventsPerSession
        /\ UNCHANGED ehVars
        /\ UNCHANGED healthVars
        /\ UNCHANGED streamVars

\* the root_task of a tree without a root (null)
NoNode == [ id |-> NoId ]

\* id: 'root' of the synthetic root node
SyntheticRootId == NoId - 1

\* buildActivityTree, first pass: the node created for an event; its children
\* list is filled by the second pass
treeNode(event) ==
    [ id          |-> event.id,
      event_type  |-> event.event_type,
      name        |-> OrElse(event.details.name, event.event_type),
      description |-> "",
      status      |-> event.status,
      timestamp   |-> event.timestamp,
      duration_ms |-> event.duration_ms,
      parent_id   |-> event.parent_id,
      details     |-> event.details ]

\* buildActivityTree, first pass: nodeMap in insertion order
createNodes(events, include_completed) ==
    LET kept(event) == ~(~include_completed /\ event.status = "success")
        retained    == SelectSeq(events, kept)
    IN  [ i \in 1..Len(retained) |-> treeNode(retained[i]) ]

\* buildActivityTree, first pass: rootNodes, the nodes with a falsy parent_id
rootNodesOf(nodes) ==
    LET parentless(node) == node.parent_id = NoId
    IN  SelectSeq(nodes, parentless)

\* second pass with the children of a node in reverse order
childrenOf_reversed(nodes, id) ==
    LET attached(node) == node.parent_id # NoId /\ node.parent_id = id
        kids == SelectSeq(nodes, attached)
    IN  [ i \in 1..Len(kids) |-> kids[Len(kids) + 1 - i] ]

\* second pass pushing every child twice
childrenOf_twice(nodes, id) ==
    LET attached(node) == node.parent_id # NoId /\ node.parent_id = id
    IN  SelectSeq(nodes, attached) \o SelectSeq(nodes, attached)

\* buildActivityTree, second pass: the nodes pushed to the children list of the
\* node with this id (a key of nodeMap), in the order of nodeMap.values()
childrenOf(nodes, id) ==
    LET attached(node) == node.parent_id # NoId /\ node.parent_id = id
    IN  SelectSeq(nodes, attached)

\* the object graph below a node after the second pass: the node with its
\* children list, each child with its own
RECURSIVE attachChildren(_, _)
attachChildren(nodes, node) ==
    LET kids == childrenOf(nodes, node.id)
    IN  [ f \in (DOMAIN node) \cup { "children" } |->
            IF f = "children"
            THEN [ i \in 1..Len(kids) |-> attachChildren(nodes, kids[i]) ]
            ELSE node[f] ]

\* limitTreeDepth cutting one level too late (> in place of >=)
RECURSIVE limitTreeDepth_late(_, _, _)
limitTreeDepth_late(node, maxDepth, currentDepth) ==
    IF node = NoNode THEN node
    ELSE IF currentDepth > maxDepth
         THEN [ node EXCEPT !.children = << >> ]
         ELSE [ node EXCEPT !.children =
                  [ i \in 1..Len(@) |-> limitTreeDepth_late(@[i], maxDepth, currentDepth + 1) ] ]

\* limitTreeDepth(node, maxDepth, currentDepth)
RECURSIVE limitTreeDepth(_, _, _)
limitTreeDepth(node, maxDepth, currentDepth) ==
    IF node = NoNode THEN node
    ELSE IF currentDepth >= maxDepth
         THEN [ node EXCEPT !.children = << >> ]
         ELSE [ node EXCEPT !.children =
                  [ i \in 1..Len(@) |-> limitTreeDepth(@[i], maxDepth, currentDepth + 1) ] ]

\* buildActivityTree: "Find or create root task node"
rootTaskOf(session, nodes) ==
    LET rootNodes  == rootNodesOf(nodes)
        isTask(node) == IsTaskType(node.event_type)
        taskEvents == SelectSeq(rootNodes, isTask)
    IN  IF Len(rootNodes) > 0
        THEN IF Len(taskEvents) > 0
             THEN attachChildren(nodes, taskEvents[1])
             ELSE [ id          |-> SyntheticRootId,
                    event_type  |-> "task_started",
                    name        |-> session.root_task,
                    description |-> session.root_task,
                    status      |-> session.status,
                    timestamp   |-> session.start_time,
                    duration_ms |-> session.metrics.total_duration_ms,
                    children    |-> [ i \in 1..Len(rootNodes) |->
                                        attachChildren(nodes, rootNodes[i]) ] ]
        ELSE NoNode

\* the stored events after a build whose nodes are the stored event objects
\* themselves: the second pass writes their children lists
eventsAfterBuild_aliased(events, nodes) ==
    [ i \in 1..Len(events) |->
        [ f \in (DOMAIN events[i]) \cup { "children" } |->
            IF f = "children" THEN childrenOf(nodes, events[i].id)
            ELSE events[i][f] ] ]

\* buildActivityTree: the stored events after the two passes and
\* limitTreeDepth.  Every node is a fresh object ({ id: event.id, ... }) and
\* the only writes are children.push and node.children = [] on nodes
eventsAfterBuild(events, nodes) == events

\* options.include_completed = true
DefaultIncludeCompleted == TRUE

\* options.max_depth = 5
DefaultMaxDepth == 5

\* buildActivityTree(sessionId, {include_completed, max_depth})
buildActivityTree(sessionId, include_completed, max_depth) ==
    LET events == getSessionEvents(sessionId)
    IN  IF ~hasSession(sessionId) \/ Len(events) = 0
        THEN [ root_task |-> NoNode ]
        ELSE [ session_id |-> sessionId,
               root_task  |-> limitTreeDepth(
                                rootTaskOf(sessions[sessionId],
                                           createNodes(events, include_completed)),
                                max_depth, 0) ]

(***************************************************************************)
(* ErrorHandler                                                            *)
(***************************************************************************)
\* the options wrapWithErrorHandling is called with in the repository
ToolWrapper ==
    [ context |-> "tool:log_event", retries |-> 2, timeout |-> 30000,
      fallback |-> "none", circuitBreaker |-> TRUE ]

TestWrapper ==
    [ context |-> "test_function", retries |-> 3, timeout |-> 1000,
      fallback |-> "none", circuitBreaker |-> FALSE ]

Wrappers == { ToolWrapper, TestWrapper }

Contexts == { w.context : w \in Wrappers }

CallIds == { "a", "b" }

\* errors a wrapped function throws: name, code, whether it is an McpError
MkError(name, code, isMcp, message) ==
    [ name |-> name, code |-> code, isMcp |-> isMcp, message |-> message ]

NoError == MkError("", "", FALSE, "")

\* new Error('Temporary failure')
TemporaryFailure == MkError("Error", "", FALSE, "Temporary failure")

\* withTimeout: reject(new Error('TimeoutError'))
WithTimeoutError == MkError("Error", "", FALSE, "TimeoutError")

ThrownErrors ==
    { TemporaryFailure,
      MkError("ValidationError", "", FALSE, "Invalid event"),
      MkError("TimeoutError", "", FALSE, "deadline exceeded"),
      MkError("Error", "ECONNREFUSED", FALSE, "connect ECONNREFUSED"),
      MkError("Error", "ETIMEDOUT", FALSE, "connect ETIMEDOUT"),
      MkError("McpError", "InvalidRequest", TRUE, "Session not found"),
      \* the default case of the tool switch
      MkError("McpError", "MethodNotFound", TRUE, "Unknown tool") }

\* new McpError(code, message)
McpError(code, message) == MkError("McpError", code, TRUE, message)

\* what one invocation of the wrapped function does: it returns, it throws,
\* or it does not settle before the timer of withTimeout
Outcomes ==
    { [ kind |-> "ok", error |-> NoError ], [ kind |-> "hang", error |-> NoError ] }
    \cup { [ kind |-> "throw", error |-> e ] : e \in ThrownErrors }

\* the wrapped functions: flakeyFunction of the retry test (throws
\* Error('Temporary failure') while callCount < 3, then returns 'success')
\* and an arbitrary function
FnKinds == { "flakeyFunction", "arbitrary" }

\* the outcomes of the k-th invocation of fn within one call
FnOutcomes(fn, k) ==
    IF fn = "flakeyFunction"
    THEN (IF k < 3 THEN { [ kind |-> "throw", error |-> TemporaryFailure ] }
                   ELSE { [ kind |-> "ok", error |-> NoError ] })
    ELSE Outcomes

\* withTimeout(promise, timeoutMs): the error an attempt fails with
withTimeout(outcome) ==
    IF outcome.kind = "hang" THEN WithTimeoutError ELSE outcome.error

\* shouldRetry accepting every error but validation errors
shouldRetry_lenient(error) ==
    IF error.name = "ValidationError" THEN FALSE ELSE TRUE

\* shouldRetry(error)
shouldRetry(error) ==
    IF error.name = "ValidationError" THEN FALSE
    ELSE IF error.isMcp /\ error.code = "InvalidRequest" THEN FALSE
    ELSE IF error.code \in { "ENOTFOUND", "ECONNREFUSED", "ETIMEDOUT" } THEN TRUE
    ELSE IF error.name = "TimeoutError" THEN TRUE
    ELSE FALSE

\* getSafeErrorMessage without the production branch
getSafeErrorMessage_detailed(error) ==
    OrElse(error.message, "Unknown error occurred")

\* getSafeErrorMessage(error)
getSafeErrorMessage(error) ==
    IF isProduction
    THEN CASE error.name = "ValidationError" -> "Invalid request parameters"
           [] error.name = "TimeoutError"    -> "Request timed out"
           [] error.name = "TypeError"       -> "Invalid request format"
           [] error.name = "SyntaxError"     -> "Invalid request syntax"
           [] OTHER                          -> "Internal server error"
    ELSE OrElse(error.message, "Unknown error occurred")

\* transformError(error, context)
transformError(error) ==
    IF error.isMcp THEN error
    ELSE IF error.name = "ValidationError"
         THEN McpError("InvalidRequest", getSafeErrorMessage(error))
    ELSE IF error.name = "TimeoutError"
         THEN McpError("InternalError", "Operation timed out")
    ELSE IF error.code \in { "ENOTFOUND", "ECONNREFUSED" }
         THEN McpError("InternalError", "Service unavailable")
    ELSE McpError("InternalError", getSafeErrorMessage(error))

\* error.message.includes('not found'), over the message texts of the model
includesNotFound(message) ==
    message \in { "Session not found", "Tool not found" }

\* handleToolError(error, toolName, args): the McpError it returns
handleToolError(error, toolName) ==
    McpError(IF error.name = "ValidationError" THEN "InvalidRequest"
             ELSE IF error.name = "TimeoutError" THEN "InternalError"
             ELSE IF includesNotFound(error.message) THEN "InvalidRequest"
             ELSE "InternalError",
             toolName \o " failed: " \o getSafeErrorMessage(error))

\* isCircuitOpen rejecting for as long as the breaker is open, whatever the time
isCircuitOpen_latched(context) ==
    IF context \notin DOMAIN circuitBreakers THEN FALSE
    ELSE circuitBreakers[context].state = "open"

\* isCircuitOpen(context): the value it returns
isCircuitOpen(context) ==
    IF context \notin DOMAIN circuitBreakers THEN FALSE
    ELSE LET breaker == circuitBreakers[context]
         IN  IF breaker.state = "open"
             THEN ~(now - breaker.lastFailure > breaker.timeout)
             ELSE FALSE

\* isCircuitOpen(context): the breakers it leaves (open becomes half-open
\* once the cool-down has elapsed)
afterIsCircuitOpen(context) ==
    IF context \notin DOMAIN circuitBreakers THEN circuitBreakers
    ELSE LET breaker == circuitBreakers[context]
         IN  IF breaker.state = "open" /\ now - breaker.lastFailure > breaker.timeout
             THEN [ circuitBreakers EXCEPT ![context].state = "half-open" ]
             ELSE circuitBreakers

\* recordCircuitBreakerFailure opening only above the threshold (> for >=)
recordCircuitBreakerFailure_late(context) ==
    LET breaker == IF context \in DOMAIN circuitBreakers THEN circuitBreakers[context]
                   ELSE [ failures |-> 0, state |-> "closed", lastFailure |-> 0,
                          threshold |-> BreakerThreshold, timeout |-> BreakerTimeout ]
        failures == breaker.failures + 1
    IN  MapSet(circuitBreakers, context,
               [ breaker EXCEPT
                    !.failures = failures,
                    !.lastFailure = now,
                    !.state = IF failures > breaker.threshold THEN "open" ELSE @ ])

\* recordCircuitBreakerFailure counting the failure on every breaker
recordCircuitBreakerFailure_shared(context) ==
    LET fresh == [ failures |-> 0, state |-> "closed", lastFailure |-> 0,
                   threshold |-> BreakerThreshold, timeout |-> BreakerTimeout ]
        all   == MapSet(circuitBreakers, context,
                        IF context \in DOMAIN circuitBreakers
                        THEN circuitBreakers[context] ELSE fresh)
    IN  [ x \in DOMAIN all |->
            [ all[x] EXCEPT
                !.failures = @ + 1,
                !.lastFailure = now,
                !.state = IF all[x].failures + 1 >= all[x].threshold THEN "open" ELSE @ ] ]

\* recordCircuitBreakerFailure(context): the breakers it leaves
recordCircuitBreakerFailure(context) ==
    LET breaker == IF context \in DOMAIN circuitBreakers THEN circuitBreakers[context]
                   ELSE [ failures |-> 0, state |-> "closed", lastFailure |-> 0,
                          threshold |-> BreakerThreshold, timeout |-> BreakerTimeout ]
        failures == breaker.failures + 1
    IN  MapSet(circuitBreakers, context,
               [ breaker EXCEPT
                    !.failures = failures,
                    !.lastFailure = now,
                    !.state = IF failures >= breaker.threshold THEN "open" ELSE @ ])

\* resetCircuitBreaker(context): the breakers it leaves
resetCircuitBreaker(context) ==
    IF context \in DOMAIN circuitBreakers
    THEN [ circuitBreakers EXCEPT ![context].failures = 0, ![context].state = "closed" ]
    ELSE circuitBreakers

IdleCall == [ pc |-> "idle" ]

\* the requests one call has logged with healthMonitor.recordRequest, with a
\* failed request logged for every failing attempt, retried or not
requestsAfter_eager(requests, outcome, retried) ==
    IF outcome.kind = "ok" THEN Append(requests, TRUE)
    ELSE Append(requests, FALSE)

\* the requests (their success flags) one call has logged with
\* healthMonitor.recordRequest(context, startTime, success) once an attempt
\* has settled: true on success, nothing when the attempt is retried, false
\* after the loop
requestsAfter(requests, outcome, retried) ==
    IF outcome.kind = "ok" THEN Append(requests, TRUE)
    ELSE IF retried THEN requests
    ELSE Append(requests, FALSE)

\* the errors one call has logged with healthMonitor.recordError(lastError,
\* context): only the one the loop ended with
errorsAfter(errors, outcome, retried, error) ==
    IF outcome.kind = "ok" \/ retried THEN errors ELSE Append(errors, error)

\* the calls of a breaker-guarded wrapper of this context that are in flight
InFlight(context) ==
    { c \in CallIds : /\ calls[c].pc \in { "awaiting", "backoff" }
                      /\ calls[c].w.circuitBreaker
                      /\ calls[c].w.context = context }

\* breaker.failures, 0 while the context has no breaker
Failures(context) ==
    IF context \in DOMAIN circuitBreakers THEN circuitBreakers[context].failures ELSE 0

\* the wrapper returned by wrapWithErrorHandling is invoked: the circuit
\* breaker check, then attempt 0 calls fn and awaits it
Invoke(c, w, fn) ==
    /\ calls[c].pc = "idle"
    /\ w.circuitBreaker =>
          Failures(w.context) + Cardinality(InFlight(w.context)) < MaxFailures
    /\ IF w.circuitBreaker /\ isCircuitOpen(w.context)
       THEN /\ calls' = [ calls EXCEPT ![c] =
                   [ pc |-> "done", w |-> w, fn |-> fn, attempt |-> 0, fnCalls |-> 0,
                     lastError |-> NoError, timedOut |-> FALSE, admitted |-> "rejected",
                     requests |-> << >>, errors |-> << >>,
                     outcome |-> "threw",
                     value |-> McpError("InternalError", "Circuit breaker open") ] ]
            /\ UNCHANGED circuitBreakers
       ELSE /\ circuitBreakers' =
                   IF w.circuitBreaker THEN afterIsCircuitOpen(w.context)
                   ELSE circuitBreakers
            /\ calls' = [ calls EXCEPT ![c] =
                   [ pc |-> "awaiting", w |-> w, fn |-> fn, attempt |-> 0, fnCalls |-> 1,
                     lastError |-> NoError, timedOut |-> FALSE,
                     admitted |-> IF w.circuitBreaker
                                     /\ w.context \in DOMAIN circuitBreakers
                                  THEN circuitBreakers'[w.context].state
                                  ELSE "closed",
                     requests |-> << >>, errors |-> << >>,
                     outcome |-> "pending", value |-> NoError ] ]
    /\ UNCHANGED <<isProduction, streak, now>>
    /\ UNCHANGED storeVars
    /\ UNCHANGED healthVars
    /\ UNCHANGED streamVars

\* the awaited attempt settles: fn returned, fn threw, or the timer fired
Settle(c, outcome) ==
    LET call  == calls[c]
        w     == call.w
        error == withTimeout(outcome)
    IN  /\ call.pc = "awaiting"
        /\ outcome \in FnOutcomes(call.fn, call.fnCalls)
        /\ IF outcome.kind = "ok"
           THEN \* record success, reset the breaker, return result
                /\ circuitBreakers' =
                      IF w.circuitBreaker THEN resetCircuitBreaker(w.context)
                      ELSE circuitBreakers
                /\ calls' = [ calls EXCEPT ![c] =
                      [ call EXCEPT !.pc = "done", !.outcome = "returned",
                                    !.timedOut = FALSE,
                                    !.requests = requestsAfter(@, outcome, FALSE),
                                    !.errors = errorsAfter(@, outcome, FALSE, error),
                                    !.value = MkError("", "", FALSE, "success") ] ]
                /\ streak' = IF w.circuitBreaker THEN [ streak EXCEPT ![w.context] = 0 ]
                              ELSE streak
           ELSE IF call.attempt < w.retries /\ shouldRetry(error)
                THEN \* await this.delay(this.getBackoffDelay(attempt)); continue
                     /\ calls' = [ calls EXCEPT ![c] =
                           [ call EXCEPT !.pc = "backoff", !.lastError = error,
                                         !.requests = requestsAfter(@, outcome, TRUE),
                                         !.errors = errorsAfter(@, outcome, TRUE, error),
                                         !.timedOut = (outcome.kind = "hang") ] ]
                     /\ UNCHANGED <<circuitBreakers, streak>>
                ELSE \* break: final failure, breaker update, fallback, throw
                     /\ circuitBreakers' =
                           IF w.circuitBreaker THEN recordCircuitBreakerFailure(w.context)
                           ELSE circuitBreakers
                     /\ calls' = [ calls EXCEPT ![c] =
                           IF w.fallback = "returns"
                           THEN [ call EXCEPT !.pc = "done", !.lastError = error,
                                              !.timedOut = (outcome.kind = "hang"),
                                              !.requests = requestsAfter(@, outcome, FALSE),
                                              !.errors = errorsAfter(@, outcome, FALSE, error),
                                              !.outcome = "returned",
                                              !.value = MkError("", "", FALSE, "fallback") ]
                           ELSE [ call EXCEPT !.pc = "done", !.lastError = error,
                                              !.timedOut = (outcome.kind = "hang"),
                                              !.requests = requestsAfter(@, outcome, FALSE),
                                              !.errors = errorsAfter(@, outcome, FALSE, error),
                                              !.outcome = "threw",
                                              !.value = transformError(error) ] ]
                     /\ streak' = IF w.circuitBreaker
                                   THEN [ streak EXCEPT ![w.context] = @ + 1 ]
                                   ELSE streak
        /\ UNCHANGED <<isProduction, now>>
        /\ UNCHANGED storeVars
        /\ UNCHANGED healthVars
        /\ UNCHANGED streamVars

\* the backoff delay has elapsed: the next attempt calls fn and awaits it
Retry(c) ==
    /\ calls[c].pc = "backoff"
    /\ calls' = [ calls EXCEPT ![c] =
          [ @ EXCEPT !.pc = "awaiting", !.attempt = @ + 1, !.fnCalls = @ + 1 ] ]
    /\ UNCHANGED <<circuitBreakers, isProduction, streak, now>>
    /\ UNCHANGED storeVars
    /\ UNCHANGED healthVars
    /\ UNCHANGED streamVars

\* the caller has received the result or the error
Return(c) ==
    /\ calls[c].pc = "done"
    /\ calls' = [ calls EXCEPT ![c] = IdleCall ]
    /\ UNCHANGED <<circuitBreakers, isProduction, streak, now>>
    /\ UNCHANGED storeVars
    /\ UNCHANGED healthVars
    /\ UNCHANGED streamVars

\* the catch block of the tool dispatcher, or any other caller, hands an
\* error to handleToolError
ErrorHandler_handleToolError(error, toolName) ==
    /\ lastOp' = [ op |-> "handleToolError", error |-> error, toolName |-> toolName,
                   ret |-> handleToolError(error, toolName) ]
    /\ UNCHANGED <<sessions, sessionEvents, maxEventsPerSession, nextId, now,
                   opCount, appended>>
    /\ UNCHANGED ehVars
    /\ UNCHANGED healthVars
    /\ UNCHANGED streamVars

\* Date.now() advances
Tick ==
    /\ now < (MaxTicks + 1) * TickMs
    /\ now' = now + TickMs
    /\ UNCHANGED <<circuitBreakers, calls, isProduction, streak>>
    /\ UNCHANGED storeVars
    /\ UNCHANGED healthVars
    /\ UNCHANGED streamVars

(***************************************************************************)
(* HealthMonitor (health-monitor.js)                                       *)
(***************************************************************************)
\* options.maxMemoryMB || 512
DefaultMaxMemoryMB == 512

\* options.maxResponseTimeMS || 1000
DefaultMaxResponseTimeMS == 1000

\* options.maxErrorRate || 0.05, as a percentage
DefaultMaxErrorRatePercent == 5

\* options.metricsRetention || 300
DefaultMetricsRetention == 300

\* getAverageResponseTime: getRecentRequests(300000)
AverageWindowMs == 300000

\* the options of the constructor; 0 stands for an option left out
MonitorOptions(maxMemoryMB, maxResponseTimeMS, maxErrorRatePercent) ==
    [ maxMemoryMB |-> maxMemoryMB, maxResponseTimeMS |-> maxResponseTimeMS,
      maxErrorRatePercent |-> maxErrorRatePercent ]

NoMonitorOptions == MonitorOptions(0, 0, 0)

\* a || b on numbers
OrDefault(a, b) == IF a = 0 THEN b ELSE a

\* constructor: this.alertThresholds; error_rate is kept as a percentage
configuredThresholds(options) ==
    [ memory_mb        |-> OrDefault(options.maxMemoryMB, DefaultMaxMemoryMB),
      response_time_ms |-> OrDefault(options.maxResponseTimeMS, DefaultMaxResponseTimeMS),
      error_rate_pct   |-> OrDefault(options.maxErrorRatePercent, DefaultMaxErrorRatePercent) ]

\* constructor: this.metrics (requests and memory)
NoMetrics ==
    [ total |-> 0, errors |-> 0, response_times |-> << >>,
      current_mb |-> 0, peak_mb |-> 0 ]

\* getRecentRequests(timeWindow) at time t
getRecentRequests(m, timeWindow, t) ==
    SelectSeq(m.response_times, LAMBDA req : req.timestamp > t - timeWindow)

\* recent.reduce((sum, req) => sum + req.time, 0)
RECURSIVE SumTimes(_)
SumTimes(samples) ==
    IF samples = << >> THEN 0 ELSE Head(samples).time + SumTimes(Tail(samples))

\* Math.round(a / b) for a >= 0, b > 0
RoundDiv(a, b) == (2 * a + b) \div (2 * b)

\* getAverageResponseTime() at time t
getAverageResponseTime(m, t) ==
    LET recent == getRecentRequests(m, AverageWindowMs, t)
    IN  IF Len(recent) = 0 THEN 0 ELSE RoundDiv(SumTimes(recent), Len(recent))

\* determineOverallHealth testing each metric in turn, critical then
\* warning, memory first
determineOverallHealth_perMetric(m, thresholds, t) ==
    LET memUsage        == m.current_mb
        avgResponseTime == getAverageResponseTime(m, t)
    IN  IF memUsage > thresholds.memory_mb THEN "critical"
        ELSE IF 10 * memUsage > 8 * thresholds.memory_mb THEN "warning"
        ELSE IF m.total > 0 /\ 100 * m.errors > thresholds.error_rate_pct * m.total
             THEN "critical"
        ELSE IF m.total > 0 /\ 200 * m.errors > thresholds.error_rate_pct * m.total
             THEN "warning"
        ELSE IF avgResponseTime > thresholds.response_time_ms * 2 THEN "critical"
        ELSE IF avgResponseTime > thresholds.response_time_ms THEN "warning"
        ELSE "healthy"

\* determineOverallHealth() at time t.  errorRate = errors / total (0 when
\* total is 0) is compared by cross-multiplication: errorRate > pct / 100
\* is 100 * errors > pct * total, errorRate > (pct / 100) * 0.5 is
\* 200 * errors > pct * total, and memUsage > memory_mb * 0.8 is
\* 10 * memUsage > 8 * memory_mb.
determineOverallHealth(m, thresholds, t) ==
    LET memUsage        == m.current_mb
        avgResponseTime == getAverageResponseTime(m, t)
    IN  IF memUsage > thresholds.memory_mb THEN "critical"
        ELSE IF m.total > 0 /\ 100 * m.errors > thresholds.error_rate_pct * m.total
             THEN "critical"
        ELSE IF avgResponseTime > thresholds.response_time_ms * 2 THEN "critical"
        ELSE IF 10 * memUsage > 8 * thresholds.memory_mb THEN "warning"
        ELSE IF m.total > 0 /\ 200 * m.errors > thresholds.error_rate_pct * m.total
             THEN "warning"
        ELSE IF avgResponseTime > thresholds.response_time_ms THEN "warning"
        ELSE "healthy"

\* events.push(x); if (length > metricsRetention) shift()
retained(samples) ==
    IF Len(samples) > DefaultMetricsRetention THEN Tail(samples) ELSE samples

\* recordRequest(method, startTime, success, endTime) with
\* responseTime = endTime - startTime; the per-method statistics and the
\* slow_request alert are left out
HealthMonitor_recordRequest(responseTime, success) ==
    /\ healthMetrics.total < MaxRequests
    /\ healthMetrics' = [ healthMetrics EXCEPT
          !.total = @ + 1,
          !.errors = IF success THEN @ ELSE @ + 1,
          !.response_times =
              retained(Append(@, [ timestamp |-> now, time |-> responseTime,
                                   success |-> success ])) ]
    /\ UNCHANGED alertThresholds
    /\ UNCHANGED now
    /\ UNCHANGED storeVars
    /\ UNCHANGED <<circuitBreakers, calls, isProduction, streak>>
    /\ UNCHANGED streamVars

\* getHealthStatus() while process.memoryUsage() reports currentMemoryMB of
\* heap in use
HealthMonitor_getHealthStatus(currentMemoryMB) ==
    LET updated == [ healthMetrics EXCEPT
                       !.current_mb = currentMemoryMB,
                       !.peak_mb = IF currentMemoryMB > @ THEN currentMemoryMB ELSE @ ]
    IN  /\ healthMetrics' = updated
        /\ lastOp' = [ op |-> "getHealthStatus",
                       status |-> determineOverallHealth(updated, alertThresholds, now),
                       memory_mb |-> currentMemoryMB,
                       total |-> updated.total, errors |-> updated.errors,
                       avg_response_time_ms |-> getAverageResponseTime(updated, now),
                       thresholds |-> alertThresholds ]
        /\ UNCHANGED alertThresholds
        /\ UNCHANGED <<sessions, sessionEvents, maxEventsPerSession, nextId, now,
                       opCount, appended>>
        /\ UNCHANGED <<circuitBreakers, calls, isProduction, streak>>
        /\ UNCHANGED streamVars

(***************************************************************************)
(* formatter.js                                                            *)
(***************************************************************************)
\* formatDuration(durationMs): the text, as its unit and digits
\* ('' / '<n>ms' / '<n>.<d>s' / '<m>m <s>s')
formatDuration(durationMs) ==
    IF durationMs = 0 THEN [ unit |-> "", a |-> 0, b |-> 0 ]
    ELSE IF durationMs < 1000 THEN [ unit |-> "ms", a |-> durationMs, b |-> 0 ]
    ELSE IF durationMs < 60000
         THEN [ unit |-> "s", a |-> ((durationMs + 50) \div 100) \div 10,
                              b |-> ((durationMs + 50) \div 100) % 10 ]
         ELSE [ unit |-> "m", a |-> durationMs \div 60000,
                              b |-> (durationMs % 60000) \div 1000 ]

\* the status mark formatEventLine appends
statusMark(status) ==
    CASE status = "running" -> "running"
      [] status = "success" -> "success"
      [] status = "error"   -> "error"
      [] status = "timeout" -> "timeout"
      [] OTHER              -> ""

\* formatEventLine(event, {showTimings, indentLevel}): the parts of the line
formatEventLine(event, showTimings, indentLevel) ==
    [ tree     |-> indentLevel,
      name     |-> OrElse(event.details.name, event.event_type),
      duration |-> IF showTimings /\ event.duration_ms # 0
                   THEN formatDuration(event.duration_ms)
                   ELSE formatDuration(0),
      status   |-> statusMark(event.status) ]

\* formatSlowOperationAlert(event, threshold)
formatSlowOperationAlert(event, threshold) ==
    [ name      |-> OrElse(event.details.name, event.event_type),
      duration  |-> formatDuration(event.duration_ms),
      threshold |-> formatDuration(threshold) ]

\* formatError(event): details.error_message || 'Unknown error'
formatError(event) ==
    [ name |-> OrElse(event.details.name, event.event_type), error |-> "Unknown error" ]

\* formatActivityTree(activityTree, options): one line per node reachable from
\* root_task, parents before children; of is the id of the node the line shows
RECURSIVE formatNode(_, _, _)
formatNode(node, level, showTimings) ==
    LET line == [ of   |-> node.id,
                  line |-> formatEventLine(
                             IF "details" \in DOMAIN node THEN node
                             ELSE [ event_type  |-> node.event_type,
                                    status      |-> node.status,
                                    duration_ms |-> node.duration_ms,
                                    details     |-> NoDetails ],
                             showTimings, level) ]
        RECURSIVE children(_)
        children(i) ==
            IF i > Len(node.children) THEN << >>
            ELSE formatNode(node.children[i], level + 1, showTimings) \o children(i + 1)
    IN  <<line>> \o children(1)

formatActivityTree(activityTree, showTimings) ==
    IF activityTree.root_task # NoNode
    THEN formatNode(activityTree.root_task, 0, showTimings)
    ELSE << >>

\* formatSessionSummary(session)
formatSessionSummary(session) ==
    [ root_task |-> session.root_task,
      status    |-> session.status,
      duration  |-> formatDuration(session.metrics.total_duration_ms),
      tools     |-> session.metrics.total_tools_used,
      mcp_calls |-> session.metrics.total_mcp_calls,
      errors    |-> session.metrics.error_count ]

(***************************************************************************)
(* ObservabilityServer (server.js): the tree and export tools              *)
(***************************************************************************)
ExportFormats == { "json", "text", "claude_code_log" }

\* handleExportSession({session_id, format}) for an existing session:
\* the exported data
exportData(sessionId, format) ==
    CASE format = "json" ->
           [ session |-> sessions[sessionId],
             events  |-> getSessionEvents(sessionId) ]
      [] format = "text" ->
           [ summary |-> formatSessionSummary(sessions[sessionId]),
             lines   |-> formatActivityTree(
                           buildActivityTree(sessionId, DefaultIncludeCompleted,
                                             DefaultMaxDepth), TRUE) ]
      [] format = "claude_code_log" ->
           [ lines |-> formatActivityTree(
                         buildActivityTree(sessionId, DefaultIncludeCompleted,
                                           DefaultMaxDepth), TRUE) ]

\* a caller invokes buildActivityTree(sessionId, options); nothing is written
SessionManager_buildActivityTree(sessionId, include_completed, max_depth) ==
    /\ lastOp' = [ op |-> "buildActivityTree", sessionId |-> sessionId,
                   include_completed |-> include_completed, max_depth |-> max_depth,
                   tree |-> buildActivityTree(sessionId, include_completed, max_depth),
                   before |-> [ sessions |-> sessions, sessionEvents |-> sessionEvents ] ]
    /\ sessionEvents' =
          IF hasSession(sessionId) /\ Len(getSessionEvents(sessionId)) > 0
          THEN [ sessionEvents EXCEPT ![sessionId] =
                   eventsAfterBuild(@, createNodes(@, include_completed)) ]
          ELSE sessionEvents
    /\ UNCHANGED <<sessions, maxEventsPerSession, nextId, now, opCount, appended>>
    /\ UNCHANGED ehVars
    /\ UNCHANGED healthVars
    /\ UNCHANGED streamVars

\* a caller invokes getSession(sessionId); nothing is written
SessionManager_getSession(sessionId) ==
    /\ lastOp' = [ op |-> "getSession", sessionId |-> sessionId,
                   ret |-> getSession(sessionId),
                   before |-> [ sessions |-> sessions, sessionEvents |-> sessionEvents ] ]
    /\ UNCHANGED <<sessions, sessionEvents, maxEventsPerSession, nextId, now,
                   opCount, appended>>
    /\ UNCHANGED ehVars
    /\ UNCHANGED healthVars
    /\ UNCHANGED streamVars

\* a caller invokes getSessionEvents(sessionId) without a filter; nothing is
\* written
SessionManager_getSessionEvents(sessionId) ==
    /\ lastOp' = [ op |-> "getSessionEvents", sessionId |-> sessionId,
                   ret |-> getSessionEvents(sessionId),
                   before |-> [ sessions |-> sessions, sessionEvents |-> sessionEvents ] ]
    /\ UNCHANGED <<sessions, sessionEvents, maxEventsPerSession, nextId, now,
                   opCount, appended>>
    /\ UNCHANGED ehVars
    /\ UNCHANGED healthVars
    /\ UNCHANGED streamVars

\* a client calls the export_session tool; a missing session is an
\* InvalidRequest error
handleExportSession(sessionId, format) ==
    /\ lastOp' = IF hasSession(sessionId)
                 THEN [ op |-> "export_session", sessionId |-> sessionId,
                        format |-> format, error |-> "",
                        data |-> exportData(sessionId, format) ]
                 ELSE [ op |-> "export_session", sessionId |-> sessionId,
                        format |-> format, error |-> "InvalidRequest" ]
    /\ UNCHANGED <<sessions, sessionEvents, maxEventsPerSession, nextId, now,
                   opCount, appended>>
    /\ UNCHANGED ehVars
    /\ UNCHANGED healthVars
    /\ UNCHANGED streamVars

(***************************************************************************)
(* ActivityStreamer (activity-streamer.js)                                 *)
(***************************************************************************)
\* options.slowThresholdMs || 500
DefaultSlowThresholdMs == 500

slowThresholdMs == DefaultSlowThresholdMs

\* options.bufferSize || 100
DefaultBufferSize == 100

\* replayRecentEvents: buffer.slice(-20)
ReplayCount == 20

\* formatClaudeCodeStyle: event.duration_ms < 200
CollapseBelowMs == 200

\* ActivityStreamer.cleanup: maxAge = 60 * 60 * 1000 (1 hour)
StreamMaxAgeMs == 3600000

\* the options callers pass to startStream; "" and "undefined" are absent
CallerOptions(format, progress, collapse, timings, highlight) ==
    [ output_format |-> format, show_progress |-> progress,
      collapse_completed |-> collapse, show_timings |-> timings,
      highlight_errors |-> highlight ]

NoOptions == CallerOptions("", "undefined", "undefined", "undefined", "undefined")

\* the options handleStreamActivity passes when the client asks to collapse
CollapseOptions == CallerOptions("claude_code_style", "true", "true", "undefined", "undefined")

\* a plain-text stream without highlighting
QuietOptions == CallerOptions("plain", "undefined", "undefined", "undefined", "false")

OptionInputs == { NoOptions, CollapseOptions, QuietOptions }

\* startStream: the options of the stream configuration
streamOptions(options) ==
    [ output_format      |-> OrElse(options.output_format, "claude_code_style"),
      show_progress      |-> options.show_progress # "false",
      collapse_completed |-> options.collapse_completed = "true",
      show_timings       |-> options.show_timings # "false",
      highlight_errors   |-> options.highlight_errors # "false" ]

\* calculateIndentLevel(event)
calculateIndentLevel(event) ==
    IF event.event_type \in { "task_started", "task_progress", "task_complete", "task_failed" }
    THEN 0
    ELSE IF event.event_type \in { "subagent_spawn", "subagent_complete", "subagent_failed" }
         THEN 1
         ELSE IF IsToolType(event.event_type) \/ IsMcpType(event.event_type) THEN 2 ELSE 1

\* getDisplayAction(event)
getDisplayAction(event) ==
    IF event.status = "started" THEN "append"
    ELSE IF event.status = "running" THEN "update"
    ELSE IF event.status \in { "success", "error", "timeout" } THEN "finalize"
    ELSE "append"

\* isSlowOperation accepting a duration equal to the threshold
isSlowOperation_inclusive(event) ==
    event.duration_ms # 0 /\ event.duration_ms >= slowThresholdMs

\* isSlowOperation(event)
isSlowOperation(event) ==
    event.duration_ms # 0 /\ event.duration_ms > slowThresholdMs

\* an output handed to the listeners: which formatter made it and its parts
Output(format, line, error, timestamp) ==
    [ format |-> format, line |-> line, error |-> error, timestamp |-> timestamp ]

NoLine == [ tree |-> 0, name |-> "", duration |-> formatDuration(0), status |-> "" ]

NoErrorDetail == [ name |-> "", error |-> "" ]

\* null: formatClaudeCodeStyle returned nothing
NoOutput == Output("", NoLine, NoErrorDetail, NoTime)

\* formatClaudeCodeStyle(event, options)
formatClaudeCodeStyle(event, options) ==
    IF options.collapse_completed /\ event.status = "success"
       /\ event.duration_ms < CollapseBelowMs
    THEN NoOutput
    ELSE LET formattedLine == formatEventLine(event, options.show_timings,
                                              calculateIndentLevel(event))
         IN  IF options.show_progress /\ event.status = "running"
             THEN Output("claude_code_style", formattedLine, NoErrorDetail, NoTime)
             ELSE IF options.highlight_errors /\ event.status = "error"
                  THEN Output("claude_code_style", formattedLine, formatError(event), NoTime)
                  ELSE Output("claude_code_style", formattedLine, NoErrorDetail, NoTime)

\* formatPlainText(event, options)
formatPlainText(event, options) ==
    Output("plain",
           [ tree     |-> 0,
             name     |-> OrElse(event.details.name, event.event_type),
             duration |-> IF event.duration_ms # 0 /\ options.show_timings
                          THEN [ unit |-> "ms", a |-> event.duration_ms, b |-> 0 ]
                          ELSE formatDuration(0),
             status   |-> event.status ],
           NoErrorDetail,
           IF options.show_timings THEN event.timestamp ELSE NoTime)

\* sendEventToStream: switch (options.output_format); t is new Date()
formatFor(event, options, t) ==
    CASE options.output_format = "claude_code_style" -> formatClaudeCodeStyle(event, options)
      [] options.output_format = "json"              -> Output("json", NoLine, NoErrorDetail, t)
      [] options.output_format = "plain"             -> formatPlainText(event, options)
      [] OTHER                                       -> formatClaudeCodeStyle(event, options)

\* what the stream_update listeners do with one update: "return", "throw"
\* (the delivery fails), or "broadcast" (the observer calls broadcastEvent for
\* the update's session before it returns), or "stop" (the observer calls
\* stopStream for the update's stream before it returns).  A script lists
\* the behaviour for the successive updates of one call; past its end the
\* listeners return.
Scripts == { << >>, <<"throw">>, <<"broadcast">>, <<"broadcast", "throw">> }

\* the event an observer broadcasts from inside its callback
observerEvent(sessionId, id, t) ==
    eventWithId(createEvent(sessionId, "task_progress", "running", NoId, 0,
                            [ task_name |-> "", name |-> "observer" ], NoTime), id, t)

\* the engine while a call runs: its maps, the clock, the uuid source, the
\* listeners' script, whether the last delivery threw, and the history of
\* broadcastEvent calls, sendEventToStream calls and stream_update emissions
Engine(script) ==
    [ streams |-> streams, sessionStreams |-> sessionStreams,
      eventBuffer |-> eventBuffer, bufferSize |-> bufferSize,
      nextId |-> nextId, now |-> now, script |-> script, threw |-> FALSE,
      invoked |-> invoked, sends |-> sends, emitted |-> emitted ]

\* Set.delete(x) on a set kept in insertion order
RECURSIVE SetDelete(_, _)
SetDelete(set, x) ==
    IF set = << >> THEN << >>
    ELSE IF Head(set) = x THEN SetDelete(Tail(set), x)
         ELSE <<Head(set)>> \o SetDelete(Tail(set), x)

\* Map.delete(k)
MapDelete(m, k) == [ x \in (DOMAIN m) \ {k} |-> m[x] ]

\* stopStream leaving the id in its session's subscriber set
stopStream_dangling(E, streamId) ==
    IF streamId \notin DOMAIN E.streams THEN E
    ELSE [ E EXCEPT !.streams = MapDelete(@, streamId) ]


\* stopStream leaving the emptied subscriber set of the session in place
stopStream_emptySet(E, streamId) ==
    IF streamId \notin DOMAIN E.streams THEN E
    ELSE LET sessionId == E.streams[streamId].sessionId
         IN  [ E EXCEPT
                 !.sessionStreams =
                     IF sessionId \notin DOMAIN @ THEN @
                     ELSE [ @ EXCEPT ![sessionId] = SetDelete(@, streamId) ],
                 !.streams = MapDelete(@, streamId) ]

\* stopStream(streamId): the engine it leaves
stopStream(E, streamId) ==
    IF streamId \notin DOMAIN E.streams THEN E
    ELSE LET sessionId == E.streams[streamId].sessionId
             remaining == IF sessionId \in DOMAIN E.sessionStreams
                          THEN SetDelete(E.sessionStreams[sessionId], streamId)
                          ELSE << >>
         IN  [ E EXCEPT
                 !.sessionStreams =
                     IF sessionId \notin DOMAIN @ THEN @
                     ELSE IF remaining = << >> THEN MapDelete(@, sessionId)
                     ELSE [ @ EXCEPT ![sessionId] = remaining ],
                 !.streams = MapDelete(@, streamId) ]

\* addToEventBuffer(sessionId, event): the buffers it leaves
addToEventBuffer(buffers, size, sessionId, event) ==
    LET buffer == IF sessionId \in DOMAIN buffers THEN buffers[sessionId] ELSE << >>
        pushed == Append(buffer, event)
    IN  MapSet(buffers, sessionId,
               IF Len(pushed) > size THEN Tail(pushed) ELSE pushed)

\* the first element of a set kept in insertion order that the running
\* for...of has not visited yet (0 when the iteration is over)
RECURSIVE nextOf(_, _)
nextOf(set, visited) ==
    IF set = << >> THEN NoId
    ELSE IF Head(set) \in visited THEN nextOf(Tail(set), visited)
         ELSE Head(set)

RECURSIVE emit(_, _)
RECURSIVE sendEventToStream(_, _, _, _)
RECURSIVE deliverLoop(_, _, _, _)
RECURSIVE broadcastEvent(_, _, _)

\* this.emit('stream_update', update): the listeners run synchronously
emit(E, update) ==
    LET does == IF E.script = << >> THEN "return" ELSE Head(E.script)
        rest == IF E.script = << >> THEN << >> ELSE Tail(E.script)
        E1   == [ E EXCEPT !.script = rest,
                           !.emitted = Append(@, [ update EXCEPT
                                                     !.threw = (does = "throw"),
                                                     !.registered =
                                                         update.stream_id \in DOMAIN E.streams ]) ]
    IN  IF does = "throw" THEN [ E1 EXCEPT !.threw = TRUE ]
        ELSE IF does = "stop" THEN stopStream(E1, update.stream_id)
        ELSE IF does = "broadcast"
             THEN broadcastEvent([ E1 EXCEPT !.nextId = @ + 1 ], update.session_id,
                                observerEvent(update.session_id, E1.nextId, E1.now))
             ELSE E1

\* sendEventToStream(streamId, event); via is "live" or "replay"
sendEventToStream(E, streamId, event, via) ==
    IF streamId \notin DOMAIN E.streams \/ ~E.streams[streamId].isActive THEN E
    ELSE LET stream  == E.streams[streamId]
             options == stream.options
             output  == formatFor(event, options, E.now)
             E0      == [ E EXCEPT !.sends = Append(@, [ stream_id |-> streamId,
                                                          session_id |-> stream.sessionId,
                                                          event |-> event,
                                                          options |-> options,
                                                          via |-> via ]) ]
             update(out, action, kind) ==
                 [ stream_id |-> streamId, session_id |-> stream.sessionId,
                   output |-> out, event |-> event.id, display_action |-> action,
                   kind |-> kind, via |-> via, send |-> Len(E0.sends), threw |-> FALSE,
                   registered |-> TRUE ]
             E1      == IF output # NoOutput
                        THEN emit(E0, update(output, getDisplayAction(event), "output"))
                        ELSE E0
         IN  IF E1.threw THEN E1
             ELSE IF options.highlight_errors /\ isSlowOperation(event)
                  THEN emit(E1, update(formatSlowOperationAlert(event, slowThresholdMs),
                                       "alert", "alert"))
                  ELSE E1

\* the loop of broadcastEvent giving up at the first delivery that throws
deliverLoop_abort(E, sessionId, event, visited) ==
    LET set      == IF sessionId \in DOMAIN E.sessionStreams
                    THEN E.sessionStreams[sessionId] ELSE << >>
        streamId == nextOf(set, visited)
    IN  IF streamId = NoId THEN E
        ELSE IF streamId \notin DOMAIN E.streams \/ ~E.streams[streamId].isActive
             THEN deliverLoop(E, sessionId, event, visited \cup {streamId})
             ELSE LET R == sendEventToStream([ E EXCEPT !.threw = FALSE ],
                                             streamId, event, "live")
                  IN  IF R.threw
                      THEN stopStream([ R EXCEPT !.threw = FALSE ], streamId)
                      ELSE deliverLoop(
                             IF streamId \in DOMAIN R.streams
                             THEN [ R EXCEPT !.streams[streamId].eventCount = @ + 1 ]
                             ELSE R,
                             sessionId, event, visited \cup {streamId})

\* broadcastEvent: for (const streamId of sessionStreams) { try ... catch { stopStream } }
deliverLoop(E, sessionId, event, visited) ==
    LET set      == IF sessionId \in DOMAIN E.sessionStreams
                    THEN E.sessionStreams[sessionId] ELSE << >>
        streamId == nextOf(set, visited)
    IN  IF streamId = NoId THEN E
        ELSE IF streamId \notin DOMAIN E.streams \/ ~E.streams[streamId].isActive
             THEN deliverLoop(E, sessionId, event, visited \cup {streamId})
             ELSE LET R == sendEventToStream([ E EXCEPT !.threw = FALSE ],
                                             streamId, event, "live")
                  IN  IF R.threw
                      THEN deliverLoop(stopStream([ R EXCEPT !.threw = FALSE ], streamId),
                                       sessionId, event, visited \cup {streamId})
                      ELSE deliverLoop(
                             IF streamId \in DOMAIN R.streams
                             THEN [ R EXCEPT !.streams[streamId].eventCount = @ + 1 ]
                             ELSE R,
                             sessionId, event, visited \cup {streamId})

\* broadcastEvent(sessionId, event): the engine it leaves
broadcastEvent(E, sessionId, event) ==
    LET E1 == [ E EXCEPT
                  !.eventBuffer = addToEventBuffer(@, E.bufferSize, sessionId, event),
                  !.invoked = Append(@, [ session_id |-> sessionId, event |-> event.id ]) ]
    IN  IF sessionId \notin DOMAIN E1.sessionStreams
           \/ E1.sessionStreams[sessionId] = << >>
        THEN E1
        ELSE deliverLoop(E1, sessionId, event, {})

\* array.slice(-n)
SliceLast(array, n) ==
    IF Len(array) > n THEN SubSeq(array, Len(array) - n + 1, Len(array)) ELSE array

\* replayRecentEvents: for (const event of recentEvents) { try ... catch { break } }
RECURSIVE replayLoop(_, _, _)
replayLoop(E, streamId, recentEvents) ==
    IF recentEvents = << >> THEN E
    ELSE LET R == sendEventToStream([ E EXCEPT !.threw = FALSE ], streamId,
                                    Head(recentEvents), "replay")
         IN  IF R.threw THEN [ R EXCEPT !.threw = FALSE ]
             ELSE replayLoop(R, streamId, Tail(recentEvents))

\* replayRecentEvents replaying the oldest buffered events instead of the latest
replayRecentEvents_oldest(E, streamId, sessionId) ==
    LET buffer == IF sessionId \in DOMAIN E.eventBuffer THEN E.eventBuffer[sessionId]
                  ELSE << >>
    IN  IF buffer = << >> THEN E
        ELSE replayLoop(E, streamId,
                        IF Len(buffer) > ReplayCount THEN SubSeq(buffer, 1, ReplayCount)
                        ELSE buffer)

\* replayRecentEvents(streamId, sessionId)
replayRecentEvents(E, streamId, sessionId) ==
    LET buffer == IF sessionId \in DOMAIN E.eventBuffer THEN E.eventBuffer[sessionId]
                  ELSE << >>
    IN  IF buffer = << >> THEN E
        ELSE replayLoop(E, streamId, SliceLast(buffer, ReplayCount))

\* startStream(sessionId, options): the engine it leaves; the stream id is
\* the uuid E.nextId
startStream(E, sessionId, options) ==
    LET streamId     == E.nextId
        streamConfig == [ id |-> streamId, sessionId |-> sessionId,
                          startTime |-> E.now, options |-> streamOptions(options),
                          isActive |-> TRUE, eventCount |-> 0 ]
        subscribers  == IF sessionId \in DOMAIN E.sessionStreams
                        THEN E.sessionStreams[sessionId] ELSE << >>
        E1 == [ E EXCEPT !.nextId = @ + 1,
                         !.streams = MapSet(@, streamId, streamConfig),
                         !.sessionStreams = MapSet(@, sessionId,
                                                   Append(subscribers, streamId)) ]
    IN  replayRecentEvents(E1, streamId, sessionId)

\* cleanup: toDelete, the inactive streams older than maxAge
staleStreams(E) ==
    { id \in DOMAIN E.streams :
        /\ ~E.streams[id].isActive
        /\ E.now - E.streams[id].startTime > StreamMaxAgeMs }

\* cleanup: for (const streamId of toDelete) this.stopStream(streamId)
RECURSIVE stopAll(_, _)
stopAll(E, toDelete) ==
    IF toDelete = {} THEN E
    ELSE LET streamId == CHOOSE id \in toDelete : \A other \in toDelete : id <= other
         IN  stopAll(stopStream(E, streamId), toDelete \ {streamId})

\* cleanup(): the engine it leaves
streamCleanup(E) == stopAll(E, staleStreams(E))

\* getStreamInfo(streamId) is null
getStreamInfoIsNull(streamId) == streamId \notin DOMAIN streams

\* the engine a call leaves becomes the state
Becomes(E) ==
    /\ streams' = E.streams
    /\ sessionStreams' = E.sessionStreams
    /\ eventBuffer' = E.eventBuffer
    /\ nextId' = E.nextId
    /\ invoked' = E.invoked
    /\ sends' = E.sends
    /\ emitted' = E.emitted

\* a caller invokes startStream(sessionId, options)
ActivityStreamer_startStream(sessionId, options, script) ==
    /\ Becomes(startStream(Engine(script), sessionId, options))
    /\ streamOps' = streamOps + 1
    /\ lastStreamOp' = [ op |-> "startStream", sessionId |-> sessionId,
                         id |-> nextId, script |-> script,
                         threw |-> startStream(Engine(script), sessionId, options).threw ]
    /\ UNCHANGED <<bufferSize, now>>
    /\ UNCHANGED <<sessions, sessionEvents, maxEventsPerSession, opCount, appended, lastOp>>
    /\ UNCHANGED ehVars
    /\ UNCHANGED healthVars

\* a caller invokes stopStream(streamId)
ActivityStreamer_stopStream(streamId) ==
    /\ Becomes(stopStream(Engine(<< >>), streamId))
    /\ streamOps' = streamOps + 1
    /\ lastStreamOp' = [ op |-> "stopStream", sessionId |-> "",
                         id |-> streamId, script |-> << >>, at |-> now,
                         wasActive |-> ~getStreamInfoIsNull(streamId),
                         threw |-> stopStream(Engine(<< >>), streamId).threw ]
    /\ UNCHANGED <<bufferSize, now>>
    /\ UNCHANGED <<sessions, sessionEvents, maxEventsPerSession, opCount, appended, lastOp>>
    /\ UNCHANGED ehVars
    /\ UNCHANGED healthVars

\* the periodic sweep: cleanup()
ActivityStreamer_cleanup ==
    /\ Becomes(streamCleanup(Engine(<< >>)))
    /\ streamOps' = streamOps + 1
    /\ lastStreamOp' = [ op |-> "cleanup", sessionId |-> "", id |-> NoId,
                         script |-> << >>, at |-> now,
                         before |-> streams,
                         removed |-> staleStreams(Engine(<< >>)),
                         threw |-> FALSE ]
    /\ UNCHANGED <<bufferSize, now>>
    /\ UNCHANGED <<sessions, sessionEvents, maxEventsPerSession, opCount, appended, lastOp>>
    /\ UNCHANGED ehVars
    /\ UNCHANGED healthVars

\* Date.now() advances past the age at which cleanup collects a stream
GracePeriodElapses ==
    /\ now <= StreamMaxAgeMs
    /\ now' = now + StreamMaxAgeMs + TickMs
    /\ UNCHANGED storeVars
    /\ UNCHANGED ehVars
    /\ UNCHANGED healthVars
    /\ UNCHANGED streamVars

\* a caller invokes broadcastEvent(sessionId, event) with an event that
\* addEvent has given the id nextId
ActivityStreamer_broadcastEvent(sessionId, event, script) ==
    /\ Becomes(broadcastEvent([ Engine(script) EXCEPT !.nextId = @ + 1 ], sessionId,
                              eventWithId(event, nextId, now)))
    /\ streamOps' = streamOps + 1
    /\ lastStreamOp' = [ op |-> "broadcastEvent", sessionId |-> sessionId,
                         id |-> nextId, script |-> script,
                         event |-> eventWithId(event, nextId, now),
                         threw |-> broadcastEvent([ Engine(script) EXCEPT !.nextId = @ + 1 ],
                                                  sessionId,
                                                  eventWithId(event, nextId, now)).threw ]
    /\ UNCHANGED <<bufferSize, now>>
    /\ UNCHANGED <<sessions, sessionEvents, maxEventsPerSession, opCount, appended, lastOp>>
    /\ UNCHANGED ehVars
    /\ UNCHANGED healthVars

\* the events broadcast in the runs: a fast success, a success that takes
\* exactly the slow threshold, a slow error
StreamInputs(s) ==
    { createEvent(s, "tool_post_call", "success", NoId, CollapseBelowMs \div 4,
                  [ task_name |-> "", name |-> "file_read" ], CallerTs),
      createEvent(s, "tool_post_call", "success", NoId, slowThresholdMs,
                  [ task_name |-> "", name |-> "file_read" ], CallerTs),
      createEvent(s, "tool_error", "error", NoId, slowThresholdMs + 1,
                  [ task_name |-> "", name |-> "failed_tool" ], CallerTs) }

(***************************************************************************)
(* ActivityMCPServer: the log_event tool (server.js)                       *)
(***************************************************************************)
\* the state a rejected request must leave alone
Observable ==
    [ sessions |-> sessions, sessionEvents |-> sessionEvents,
      appended |-> appended, nextId |-> nextId,
      streams |-> streams, sessionStreams |-> sessionStreams,
      eventBuffer |-> eventBuffer, invoked |-> invoked,
      sends |-> sends, emitted |-> emitted ]

\* handleLogEvent({event}): an event that fails validateEvent is answered
\* with McpError(InvalidRequest, 'Invalid event structure') before anything
\* else runs.  Otherwise the session is created when it is missing (with the
\* root task addEvent would give it), addEvent stores the event, and the
\* stored event is handed to broadcastEvent; script is what the listeners of
\* the emitter do.
handleLogEvent(event, script) ==
    IF ~validateEvent(event)
    THEN /\ opCount < MaxOps
         /\ opCount' = opCount + 1
         /\ lastOp' = [ op |-> "log_event", event |-> event,
                        error |-> McpError("InvalidRequest", "Invalid event structure"),
                        before |-> Observable ]
         /\ UNCHANGED <<sessions, sessionEvents, maxEventsPerSession, nextId, now, appended>>
         /\ UNCHANGED ehVars
         /\ UNCHANGED healthVars
         /\ UNCHANGED streamVars
    ELSE /\ addEventWrites(event.session_id, event)
         /\ Becomes(broadcastEvent([ Engine(script) EXCEPT !.nextId = @ + 1 ],
                                   event.session_id,
                                   eventWithId(event, nextId, now)))
         /\ lastStreamOp' = [ op |-> "broadcastEvent", sessionId |-> event.session_id,
                              id |-> nextId, script |-> script,
                              event |-> eventWithId(event, nextId, now),
                              threw |-> broadcastEvent(
                                            [ Engine(script) EXCEPT !.nextId = @ + 1 ],
                                            event.session_id,
                                            eventWithId(event, nextId, now)).threw ]
         /\ UNCHANGED <<bufferSize, streamOps, now, maxEventsPerSession>>
         /\ UNCHANGED ehVars
         /\ UNCHANGED healthVars

\* the state after construction; maxEvents are the values of
\* options.maxEventsPerSession, size is options.bufferSize || 100
InitMonitored(maxEvents, size, monitorOptions) ==
    /\ healthMetrics = NoMetrics
    /\ alertThresholds \in { configuredThresholds(o) : o \in monitorOptions }
    /\ sessions = << >>
    /\ sessionEvents = << >>
    /\ maxEventsPerSession \in { configuredMaxEvents(option) : option \in maxEvents }
    /\ nextId = 1
    /\ opCount = 0
    /\ now = TickMs
    /\ appended = [ s \in SessionIds |-> << >> ]
    /\ lastOp = [ op |-> "none" ]
    /\ circuitBreakers = << >>
    /\ calls = [ c \in CallIds |-> IdleCall ]
    /\ isProduction \in BOOLEAN
    /\ streak = [ x \in Contexts |-> 0 ]
    /\ streams = << >>
    /\ sessionStreams = << >>
    /\ eventBuffer = << >>
    /\ bufferSize = size
    /\ streamOps = 0
    /\ invoked = << >>
    /\ sends = << >>
    /\ emitted = << >>
    /\ lastStreamOp = [ op |-> "none" ]

InitSized(maxEvents, size) == InitMonitored(maxEvents, size, { NoMonitorOptions })

Init ==
    InitSized({ MaxEventsPerSession },
              IF BufferSize = 0 THEN DefaultBufferSize ELSE BufferSize)

NextStore ==
    \/ \E s \in SessionIds, r \in RootTasks : SessionManager_createSession(s, r)
    \/ \E s \in SessionIds, st \in StatusInputs : updateSessionStatus(s, st)
    \/ \E s \in SessionIds : \E e \in InputEvents(s) : addEvent(s, e)

SpecStore == Init /\ [][NextStore]_vars

\* events submitted in the expiry runs: a task that starts and one that completes
ExpiryInputs(s) ==
    { createEvent(s, "task_started", "started", NoId, 0,
                  [ task_name |-> "T", name |-> "T" ], NoTime),
      createEvent(s, "task_complete", "success", NoId, 0, NoDetails, NoTime) }

\* sessions are created, filled and completed while the clock advances and
\* the cleanup timer fires
NextExpiry ==
    \/ \E s \in SessionIds, r \in RootTasks : SessionManager_createSession(s, r)
    \/ \E s \in SessionIds : updateSessionStatus(s, "completed")
    \/ \E s \in SessionIds : \E e \in ExpiryInputs(s) : addEvent(s, e)
    \/ Tick
    \/ cleanup

SpecExpiry == Init /\ [][NextExpiry]_vars

\* a parent id no event of the run is given
MissingId == NoId - 2

\* the parent ids callers can name: none, an id already handed out, or one
\* that never arrives
ParentInputs == { NoId, MissingId } \cup 1..(nextId - 1)

\* the events submitted in the tree runs: a named task that starts, a named
\* tool call that succeeded
TreeInputs(s) ==
    { createEvent(s, "task_started", "started", parent, 0,
                  [ task_name |-> "T", name |-> "T" ], NoTime) : parent \in ParentInputs }
    \cup
    { createEvent(s, "tool_post_call", "success", parent, 7,
                  [ task_name |-> "", name |-> "file_read" ], NoTime) : parent \in ParentInputs }

\* the max_depth options of the tree runs
DepthInputs == { 0, 1, DefaultMaxDepth }

\* stores that retain MaxEventsPerSession events or one more
InitTree ==
    InitSized({ MaxEventsPerSession, MaxEventsPerSession + 1 },
              IF BufferSize = 0 THEN DefaultBufferSize ELSE BufferSize)

\* one session receives events; its tree is built and it is exported
NextTree ==
    \/ \E e \in TreeInputs("s1") : addEvent("s1", e)
    \/ \E c \in BOOLEAN, d \in DepthInputs :
          SessionManager_buildActivityTree("s1", c, d)
    \/ \E f \in ExportFormats : handleExportSession("s1", f)

SpecTree == InitTree /\ [][NextTree]_vars

\* parent ids that may also turn out to be the id the event itself is given,
\* or the id of the event stored after it
CyclicParentInputs == { NoId } \cup 1..(nextId + 1)

\* a task that starts and a tool call, under any of these parents
CyclicInputs(s) ==
    { createEvent(s, "task_started", "started", parent, 0,
                  [ task_name |-> "T", name |-> "T" ], NoTime) : parent \in CyclicParentInputs }
    \cup
    { createEvent(s, "tool_pre_call", "started", parent, 0,
                  [ task_name |-> "", name |-> "file_read" ], NoTime) : parent \in CyclicParentInputs }

\* one session receives events whose parents may form cycles; its tree is built
NextCycle ==
    \/ \E e \in CyclicInputs("s1") : addEvent("s1", e)
    \/ \E c \in BOOLEAN, d \in DepthInputs :
          SessionManager_buildActivityTree("s1", c, d)

SpecCycle == InitTree /\ [][NextCycle]_vars

\* lookups and status updates on sessions that exist and on sessions that do
\* not
NextLookup ==
    \/ \E s \in SessionIds : \E e \in ExpiryInputs(s) : addEvent(s, e)
    \/ \E s \in SessionIds, st \in StatusInputs : updateSessionStatus(s, st)
    \/ \E s \in SessionIds : SessionManager_getSession(s)
    \/ \E s \in SessionIds : SessionManager_getSessionEvents(s)
    \/ \E s \in SessionIds, c \in BOOLEAN :
          SessionManager_buildActivityTree(s, c, DefaultMaxDepth)

SpecLookup == Init /\ [][NextLookup]_vars

\* an event posted without display_info
posted(event) == [ event EXCEPT !.display_info = NoDisplayInfo ]

\* well-formed events; a timestamp string that parses is CallerTs
WellFormedInputs(s) ==
    { posted(createEvent(s, "task_started", "started", NoId, 0,
                         [ task_name |-> "T", name |-> "T" ], CallerTs)),
      posted(createEvent(s, "tool_post_call", "success", NoId, 7,
                         [ task_name |-> "", name |-> "file_read" ], CallerTs)) }

MalformedInputs ==
    { \* no timestamp
      posted(createEvent("s1", "task_started", "started", NoId, 0,
                         [ task_name |-> "T", name |-> "T" ], NoTime)),
      \* no session id
      posted(createEvent("", "task_started", "started", NoId, 0,
                         [ task_name |-> "T", name |-> "T" ], CallerTs)),
      \* an event type and a status outside the enumerations
      posted(createEvent("s2", "task_begun", "started", NoId, 0, NoDetails, CallerTs)),
      posted(createEvent("s1", "tool_post_call", "done", NoId, 7,
                         [ task_name |-> "", name |-> "file_read" ], CallerTs)),
      \* a negative duration
      posted(createEvent("s1", "tool_post_call", "success", NoId, 0 - 1,
                         NoDetails, CallerTs)),
      \* display_info with fields outside the allowed ones
      createEvent("s1", "task_started", "started", NoId, 0,
                  [ task_name |-> "T", name |-> "T" ], CallerTs) }

\* clients open a stream per session and log events, well-formed or not
NextLog ==
    \/ \E s \in SessionIds :
           /\ s \notin DOMAIN sessionStreams
           /\ ActivityStreamer_startStream(s, NoOptions, << >>)
    \/ \E s \in SessionIds : \E e \in WellFormedInputs(s) : handleLogEvent(e, << >>)
    \/ \E e \in MalformedInputs : handleLogEvent(e, << >>)

SpecLog == Init /\ [][NextLog]_vars

\* the monitor is constructed with the default thresholds or with a
\* maxErrorRate of 0.8
InitHealth ==
    InitMonitored({ MaxEventsPerSession },
                  IF BufferSize = 0 THEN DefaultBufferSize ELSE BufferSize,
                  { NoMonitorOptions, MonitorOptions(0, 0, 80) })

\* response times (ms) around the default latency threshold and its double
ResponseTimes == { 100, 1500, 2500 }

\* heap in use (MB) around the default memory threshold and its 80%
MemoryReadings == { 100, 450, 600 }

\* requests are recorded and the health status is read
NextHealth ==
    \/ \E time \in ResponseTimes, success \in BOOLEAN :
           HealthMonitor_recordRequest(time, success)
    \/ \E mb \in MemoryReadings : HealthMonitor_getHealthStatus(mb)

SpecHealth == InitHealth /\ [][NextHealth]_vars

ToolNames == { "log_event", "export_session" }

\* the errors handed to handleToolError: what a handler throws and what the
\* wrapper makes of it
ToolErrors == ThrownErrors \cup { transformError(e) : e \in ThrownErrors }

\* one invocation at a time of a wrapped function; errors reach
\* handleToolError
NextSafe ==
    \/ \E w \in Wrappers : Invoke("a", w, "arbitrary")
    \/ \E o \in Outcomes : Settle("a", o)
    \/ Retry("a")
    \/ Return("a")
    \/ \E e \in ToolErrors, tool \in ToolNames : ErrorHandler_handleToolError(e, tool)

SpecSafe == Init /\ [][NextSafe]_vars

\* session ids callers pass to createEvent
CreateSessionIds == SessionIds \cup { "test-session" }

\* a caller builds an event with createEvent({sessionId, eventType, status})
\* at the current time, every other parameter at its default, and has it
\* validated
Client_createEvent(sessionId, eventType, status) ==
    /\ lastOp' = [ op |-> "createEvent",
                   event |-> createEvent(sessionId, eventType, status, NoId, 0,
                                         NoDetails, now),
                   valid |-> validateEvent(createEvent(sessionId, eventType, status,
                                                       NoId, 0, NoDetails, now)) ]
    /\ UNCHANGED <<sessions, sessionEvents, maxEventsPerSession, nextId, now,
                   opCount, appended>>
    /\ UNCHANGED ehVars
    /\ UNCHANGED healthVars
    /\ UNCHANGED streamVars

NextCreate ==
    \E s \in CreateSessionIds, t \in EVENT_TYPES, st \in EVENT_STATUS :
        Client_createEvent(s, t, st)

SpecCreate == Init /\ [][NextCreate]_vars

\* observers that return, and observers that stop the stream an update is
\* for as soon as they receive it
StopScripts == { << >>, <<"stop">> }

\* streams are opened on one session and stopped by their callers or from
\* inside an observer while events are broadcast
NextCancel ==
    /\ streamOps < MaxStreamOps
    /\ \/ \E o \in { NoOptions, QuietOptions } : ActivityStreamer_startStream("s1", o, << >>)
       \/ \E id \in 1..nextId : ActivityStreamer_stopStream(id)
       \/ \E sc \in StopScripts : \E e \in StreamInputs("s1") :
              ActivityStreamer_broadcastEvent("s1", e, sc)

SpecCancel == Init /\ [][NextCancel]_vars

\* observers that return, fail, or stop the stream they are called for
LifeScripts == { << >>, <<"throw">>, <<"stop">> }

\* streams are opened, stopped, sent events and swept while time passes
NextLife ==
    \/ GracePeriodElapses
    \/ /\ streamOps < MaxStreamOps
       /\ \/ \E s \in SessionIds : ActivityStreamer_startStream(s, NoOptions, << >>)
          \/ \E id \in 1..nextId : ActivityStreamer_stopStream(id)
          \/ \E s \in SessionIds, sc \in LifeScripts :
                 ActivityStreamer_broadcastEvent(
                     s, createEvent(s, "tool_error", "error", NoId, slowThresholdMs + 1,
                                    [ task_name |-> "", name |-> "failed_tool" ], CallerTs),
                     sc)
          \/ ActivityStreamer_cleanup

SpecLife == Init /\ [][NextLife]_vars

\* the session id that is used again after its session has expired
ReuseSessionIds == { "s1" }

\* events are logged to one session id and streamed while the session
\* expires in the store
NextReuse ==
    \/ /\ opCount < MaxOps
       /\ \E s \in ReuseSessionIds :
             handleLogEvent(posted(createEvent(s, "tool_post_call", "success", NoId, 7,
                                               [ task_name |-> "", name |-> "file_read" ],
                                               CallerTs)),
                            << >>)
    \/ GracePeriodElapses
    \/ cleanup
    \/ /\ streamOps < MaxStreamOps
       /\ \/ \E s \in ReuseSessionIds : ActivityStreamer_startStream(s, NoOptions, << >>)
          \/ \E id \in DOMAIN streams : ActivityStreamer_stopStream(id)

SpecReuse == Init /\ [][NextReuse]_vars

\* what the wrapped function does in the concurrent runs: it returns, throws
\* a non-retryable error or throws a retryable one
BreakerOutcomes ==
    { [ kind |-> "ok", error |-> NoError ],
      [ kind |-> "throw", error |-> TemporaryFailure ],
      [ kind |-> "throw", error |-> MkError("Error", "ECONNREFUSED", FALSE, "connect ECONNREFUSED") ] }

\* concurrent invocations of the breaker-guarded tool wrapper
NextBreaker ==
    \/ \E c \in CallIds : Invoke(c, ToolWrapper, "arbitrary")
    \/ \E c \in CallIds, o \in BreakerOutcomes : Settle(c, o)
    \/ \E c \in CallIds : Retry(c)
    \/ \E c \in CallIds : Return(c)
    \/ Tick

SpecBreaker == Init /\ [][NextBreaker]_vars

\* one invocation at a time, of either wrapper, with every outcome
NextRetry ==
    \/ \E w \in Wrappers, fn \in FnKinds : Invoke("a", w, fn)
    \/ \E o \in Outcomes : Settle("a", o)
    \/ Retry("a")
    \/ Return("a")
    \/ Tick

SpecRetry == Init /\ [][NextRetry]_vars

\* a breaker-guarded wrapper with a fallback function that returns
FallbackWrapper ==
    [ context |-> "test_function", retries |-> 1, timeout |-> 1000,
      fallback |-> "returns", circuitBreaker |-> TRUE ]

\* what the wrapped function does in the guarded runs: it returns, or throws
\* a validation error, a not-found error or a retryable network error
GuardedOutcomes ==
    { [ kind |-> "ok", error |-> NoError ],
      [ kind |-> "throw", error |-> MkError("ValidationError", "", FALSE, "Invalid event") ],
      [ kind |-> "throw", error |-> MkError("McpError", "InvalidRequest", TRUE, "Session not found") ],
      [ kind |-> "throw", error |-> MkError("Error", "ECONNREFUSED", FALSE, "connect ECONNREFUSED") ] }

\* the wrapper each caller invokes
WrapperOf(c) == IF c = "a" THEN ToolWrapper ELSE FallbackWrapper

\* invocations of two breaker-guarded contexts, one of them with a fallback,
\* that overlap in time
NextGuarded ==
    \/ \E c \in CallIds : Invoke(c, WrapperOf(c), "arbitrary")
    \/ \E c \in CallIds, o \in GuardedOutcomes : Settle(c, o)
    \/ \E c \in CallIds : Retry(c)
    \/ \E c \in CallIds : Return(c)
    \/ Tick

SpecGuarded == Init /\ [][NextGuarded]_vars

\* the ActivityStreamer under any sequence of calls, with listeners that
\* return, throw or broadcast from inside the callback
NextStream ==
    /\ streamOps < MaxStreamOps
    /\ \/ \E s \in SessionIds, o \in OptionInputs :
              ActivityStreamer_startStream(s, o, << >>)
       \/ \E id \in 1..nextId : ActivityStreamer_stopStream(id)
       \/ \E s \in SessionIds, sc \in Scripts : \E e \in StreamInputs(s) :
              ActivityStreamer_broadcastEvent(s, e, sc)

SpecStream == Init /\ [][NextStream]_vars

\* the event broadcast in the replay runs
ReplayInput ==
    createEvent("s1", "task_started", "started", NoId, 0,
                [ task_name |-> "", name |-> "Task" ], NoTime)

\* an engine whose buffer holds more events than one replay sends
InitReplay == InitSized({ MaxEventsPerSession }, ReplayCount + 2)

\* one session fills its replay buffer, then a stream subscribes
NextReplay ==
    \/ /\ Len(invoked) < MaxBroadcasts
       /\ ActivityStreamer_broadcastEvent("s1", ReplayInput, << >>)
    \/ /\ DOMAIN streams = {}
       /\ emitted = << >>
       /\ \E sc \in Scripts \cup { <<"return", "throw">> } :
             ActivityStreamer_startStream("s1", NoOptions, sc)

SpecReplay == InitReplay /\ [][NextReplay]_vars

(***************************************************************************)
(* Properties of the session store (checked under SpecStore).              *)
(***************************************************************************)
LastN(seq, n) ==
    IF Len(seq) > n THEN SubSeq(seq, Len(seq) - n + 1, Len(seq)) ELSE seq

IdsOf(events) == [ i \in 1..Len(events) |-> events[i].id ]

\* C1: the retained history of every session never holds more than the
\* configured cap, and it is exactly the most recent cap events that addEvent
\* stored in that session, in insertion order (after cap + k insertions the
\* earliest k are gone).
C1_BoundedHistory ==
    \A s \in DOMAIN sessionEvents :
        /\ Len(getSessionEvents(s)) <= maxEventsPerSession
        /\ IdsOf(getSessionEvents(s)) = LastN(appended[s], maxEventsPerSession)

\* cap + k events (k >= 1) were inserted into one session
C1_Witness ==
    \E s \in DOMAIN sessionEvents :
        /\ Len(appended[s]) > maxEventsPerSession
        /\ Len(getSessionEvents(s)) = maxEventsPerSession

\* fields of the stored event other than id and timestamp equal the submitted ones
SameButIdAndTimestamp(stored, event) ==
    \A f \in (DOMAIN event) \ {"id", "timestamp"} :
        f \in DOMAIN stored /\ stored[f] = event[f]

\* C2: right after addEvent(s, e), whether or not s existed, the last element
\* of getSessionEvents(s) equals e in every field but the freshly assigned id
\* and the normalised timestamp, and addEvent returned that stored event.
C2_AddEventStored ==
    lastOp.op = "addEvent" =>
        LET evs  == getSessionEvents(lastOp.sessionId)
            last == evs[Len(evs)]
            e    == lastOp.event
        IN  /\ lastOp.stored
            /\ Len(evs) > 0
            /\ SameButIdAndTimestamp(last, e)
            /\ last.timestamp = (IF e.timestamp = NoTime THEN lastOp.at ELSE e.timestamp)
            /\ last.id # NoId
            /\ \A s \in DOMAIN sessionEvents : \A i \in 1..Len(sessionEvents[s]) :
                   (sessionEvents[s][i].id = last.id) =>
                       (s = lastOp.sessionId /\ i = Len(evs))
            /\ lastOp.ret = last

\* addEvent on a session that did not exist, with an event without timestamp
C2_Witness ==
    /\ lastOp.op = "addEvent"
    /\ ~lastOp.existed
    /\ lastOp.event.timestamp = NoTime
    /\ lastOp.sessionId \in DOMAIN sessions

\* operations left open by a history: started opens one, a terminal status
\* concludes one, running reports on an open one (or opens one)
RECURSIVE OpenOps(_, _)
OpenOps(events, open) ==
    IF events = << >> THEN open
    ELSE LET st == Head(events).status
         IN  OpenOps(Tail(events),
                     IF st = "started" THEN open + 1
                     ELSE IF st = "running" THEN (IF open = 0 THEN 1 ELSE open)
                     ELSE IF open > 0 THEN open - 1 ELSE 0)

\* C3: once every started operation of a session has been followed by its
\* terminal event (success, error or timeout), activeOperations is empty.
C3_ActiveOperationsCleared ==
    \A s \in DOMAIN sessions :
        ( /\ Len(appended[s]) <= maxEventsPerSession
          /\ OpenOps(getSessionEvents(s), 0) = 0 )
        => sessions[s].active_operations = << >>

\* C4: addEvent sets the status to active on task_started, to completed on
\* task_complete iff activeOperations is empty after the event's own update
\* (else unchanged), to failed on task_failed, and leaves it unchanged for
\* every other event type.
C4_SessionStatus ==
    [][ (nextId' # nextId) =>
          LET s    == lastOp'.sessionId
              e    == lastOp'.ret
              prev == IF s \in DOMAIN sessions THEN sessions[s].status ELSE "active"
              ops  == sessions'[s].active_operations
              st   == sessions'[s].status
          IN  /\ e.event_type = "task_started" => st = "active"
              /\ e.event_type = "task_complete" =>
                    /\ (ops = << >>) => st = "completed"
                    /\ (ops # << >>) => st = prev
              /\ e.event_type = "task_failed" => st = "failed"
              /\ e.event_type \notin { "task_started", "task_complete", "task_failed" }
                    => st = prev
      ]_vars

\* a task_complete event arrived while an operation was active, and the
\* paused session kept its status
C4_Witness ==
    /\ lastOp.op = "addEvent"
    /\ lastOp.event.event_type = "task_complete"
    /\ sessions[lastOp.sessionId].active_operations # << >>
    /\ sessions[lastOp.sessionId].status = "paused"

(***************************************************************************)
(* Properties of the error handler.                                        *)
(***************************************************************************)
\* breaker.state, closed while the context has no breaker
BreakerState(context) ==
    IF context \in DOMAIN circuitBreakers THEN circuitBreakers[context].state
    ELSE "closed"

\* the step in which call c is invoked
Invoked(c) == calls[c].pc = "idle" /\ calls'[c].pc # "idle"

\* the step in which call c ends, returning or throwing
Ended(c) == calls[c].pc = "awaiting" /\ calls'[c].pc = "done"

\* C5: with the breaker enabled, the failure that makes threshold consecutive
\* failed invocations leaves the breaker open; an invocation made while the
\* breaker is open and the cool-down has not elapsed fails at once without
\* invoking the wrapped function; a successful invocation resets the
\* failure count to zero.
C5_BreakerOpens ==
    [][ \A ctx \in Contexts :
          /\ (streak'[ctx] > streak[ctx] /\ streak'[ctx] >= BreakerThreshold)
                => BreakerState(ctx)' = "open"
          /\ \A c \in CallIds :
                ( /\ Invoked(c)
                  /\ calls'[c].w.circuitBreaker
                  /\ calls'[c].w.context = ctx
                  /\ BreakerState(ctx) = "open"
                  /\ now - circuitBreakers[ctx].lastFailure <= BreakerTimeout )
                => ( /\ calls'[c].pc = "done"
                     /\ calls'[c].outcome = "threw"
                     /\ calls'[c].fnCalls = 0
                     /\ circuitBreakers' = circuitBreakers )
          /\ \A c \in CallIds :
                ( /\ Ended(c)
                  /\ calls'[c].outcome = "returned"
                  /\ calls[c].w.circuitBreaker
                  /\ calls[c].w.context = ctx )
                => Failures(ctx)' = 0
      ]_vars

\* threshold consecutive failures opened the breaker, and an invocation made
\* exactly one cool-down window later was rejected without calling fn
C5_Witness ==
    \E c \in CallIds :
        /\ calls[c].pc = "done"
        /\ calls[c].admitted = "rejected"
        /\ calls[c].fnCalls = 0
        /\ BreakerState(calls[c].w.context) = "open"
        /\ streak[calls[c].w.context] = BreakerThreshold
        /\ now - circuitBreakers[calls[c].w.context].lastFailure = BreakerTimeout

\* C6: while the half-open probe is in flight, no other invocation for the
\* context is let through: at most one call admitted in half-open is in flight.
C6_SingleProbe ==
    \A ctx \in Contexts :
        Cardinality({ c \in InFlight(ctx) : calls[c].admitted = "half-open" }) <= 1

\* C7: a successful half-open probe closes the breaker with failure count 0,
\* a failed probe reopens it with the cool-down restarting at that failure,
\* and the breaker only moves closed -> open, open -> half-open,
\* half-open -> closed and half-open -> open.
C7_Transitions ==
    [][ \A ctx \in Contexts :
          /\ BreakerState(ctx)' # BreakerState(ctx) =>
                <<BreakerState(ctx), BreakerState(ctx)'>> \in
                    { <<"closed", "open">>, <<"open", "half-open">>,
                      <<"half-open", "closed">>, <<"half-open", "open">> }
          /\ \A c \in CallIds :
                ( /\ Ended(c)
                  /\ calls[c].admitted = "half-open"
                  /\ calls[c].w.context = ctx )
                => IF calls'[c].outcome = "returned"
                   THEN BreakerState(ctx)' = "closed" /\ Failures(ctx)' = 0
                   ELSE /\ BreakerState(ctx)' = "open"
                        /\ circuitBreakers'[ctx].lastFailure = now
      ]_vars

\* C8: flakeyFunction (throws Error('Temporary failure') on its first two
\* invocations, then returns 'success') wrapped with retries = 3 returns
\* 'success' after exactly 3 invocations.
C8_FlakeyRetried ==
    \A c \in CallIds :
        ( /\ calls[c].pc = "done"
          /\ calls[c].w = TestWrapper
          /\ calls[c].fn = "flakeyFunction" )
        => ( /\ calls[c].outcome = "returned"
             /\ calls[c].value.message = "success"
             /\ calls[c].fnCalls = 3 )

\* the retryable class: network-style errors and timeouts
RetryableClass(error) ==
    \/ error.code \in { "ENOTFOUND", "ECONNREFUSED", "ETIMEDOUT" }
    \/ error.name = "TimeoutError"

C10_TimeoutRetried ==
    \A c \in CallIds :
        (calls[c].pc # "idle" /\ calls[c].timedOut)
        => ( /\ calls[c].lastError.name = "TimeoutError"
             /\ calls[c].pc = "done" =>
                   ( /\ calls[c].attempt = calls[c].w.retries
                     /\ calls[c].value = McpError("InternalError", "Operation timed out") ) )

(***************************************************************************)
(* Properties of the activity streamer.                                    *)
(***************************************************************************)
\* the position of an event in the order broadcastEvent was invoked
PosInvoked(ev) == CHOOSE k \in 1..Len(invoked) : invoked[k].event = ev

\* the step is a call of the given ActivityStreamer operation
StreamCall(op) == streamOps' # streamOps /\ lastStreamOp'.op = op

\* the stream_update events and sendEventToStream calls made by the step
NewEmitted == (Len(emitted) + 1)..Len(emitted')

NewSends == (Len(sends) + 1)..Len(sends')

\* C11: per session, every stream is delivered the live events (their
\* formatted outputs) in exactly the order in which broadcastEvent was
\* invoked for the session, and all the
\* streams of a session see the same order, whatever the interleaving of the
\* invocations, a broadcastEvent invoked by an observer from inside a
\* stream_update callback included.
C11_BroadcastOrder ==
    /\ \A i \in 1..Len(emitted), j \in 1..Len(emitted) :
          ( /\ i < j
            /\ emitted[i].via = "live" /\ emitted[j].via = "live"
            /\ emitted[i].kind = "output" /\ emitted[j].kind = "output"
            /\ emitted[i].stream_id = emitted[j].stream_id )
          => PosInvoked(emitted[i].event) <= PosInvoked(emitted[j].event)
    /\ \A i1 \in 1..Len(emitted), i2 \in 1..Len(emitted),
          j1 \in 1..Len(emitted), j2 \in 1..Len(emitted) :
          ( /\ emitted[i1].via = "live" /\ emitted[i2].via = "live"
            /\ emitted[j1].via = "live" /\ emitted[j2].via = "live"
            /\ emitted[i1].kind = "output" /\ emitted[i2].kind = "output"
            /\ emitted[j1].kind = "output" /\ emitted[j2].kind = "output"
            /\ emitted[i1].stream_id = emitted[i2].stream_id
            /\ emitted[j1].stream_id = emitted[j2].stream_id
            /\ emitted[i1].session_id = emitted[j1].session_id
            /\ emitted[i1].event = emitted[j1].event
            /\ emitted[i2].event = emitted[j2].event
            /\ emitted[i1].event # emitted[i2].event )
          => (i1 < i2 <=> j1 < j2)

\* C12: when delivering an event to one stream fails during broadcastEvent,
\* only that stream is stopped, every other active stream of the session is
\* still handed the event, broadcastEvent does not throw, and the sessions
\* and histories of the session store are unchanged.
C12_FailureIsolated ==
    [][ StreamCall("broadcastEvent") =>
          LET s      == lastStreamOp'.sessionId
              ev     == lastStreamOp'.id
              failed == { emitted'[n].stream_id : n \in { k \in NewEmitted : emitted'[k].threw } }
          IN  /\ ~lastStreamOp'.threw
              /\ DOMAIN streams' = (DOMAIN streams) \ failed
              /\ \A st \in DOMAIN streams' :
                    /\ streams'[st].isActive
                    /\ streams'[st].sessionId = streams[st].sessionId
                    /\ streams'[st].options = streams[st].options
              /\ \A st \in DOMAIN streams :
                    (streams[st].sessionId = s /\ streams[st].isActive /\ st \notin failed)
                    => \E k \in NewSends : /\ sends'[k].stream_id = st
                                           /\ sends'[k].event.id = ev
              /\ sessions' = sessions
              /\ sessionEvents' = sessionEvents
      ]_vars

\* the delivery of an event to the first stream of a session threw, the stream
\* was stopped, and the second stream of the session was delivered the event
C12_Witness ==
    /\ lastStreamOp.op = "broadcastEvent"
    /\ \E i \in 1..Len(emitted), j \in 1..Len(emitted) :
          /\ i < j
          /\ emitted[i].threw
          /\ emitted[i].event = lastStreamOp.id
          /\ emitted[j].event = lastStreamOp.id
          /\ emitted[i].stream_id # emitted[j].stream_id
          /\ emitted[i].stream_id \notin DOMAIN streams
          /\ emitted[j].stream_id \in DOMAIN streams

OutputsOf(k, kind) ==
    { n \in 1..Len(emitted) : emitted[n].send = k /\ emitted[n].kind = kind }

\* the delivery is one the stream's options ask to leave out
Collapsed(send) ==
    /\ send.options.output_format \notin { "json", "plain" }
    /\ send.options.collapse_completed
    /\ send.event.status = "success"
    /\ send.event.duration_ms < CollapseBelowMs

\* what every delivery of an event to an active stream has emitted
DeliveryOutputs ==
    /\ \A n \in 1..Len(emitted) : emitted[n].send \in 1..Len(sends)
    /\ \A k \in 1..Len(sends) :
          LET outs      == OutputsOf(k, "output")
              alerts    == OutputsOf(k, "alert")
              failedOut == \E n \in outs : emitted[n].threw
          IN  /\ Cardinality(outs) = (IF Collapsed(sends[k]) THEN 0 ELSE 1)
              /\ Cardinality(alerts) =
                    (IF /\ ~failedOut
                        /\ sends[k].options.highlight_errors
                        /\ sends[k].event.duration_ms > DefaultSlowThresholdMs
                     THEN 1 ELSE 0)
              /\ \A n \in outs \cup alerts :
                    /\ emitted[n].stream_id = sends[k].stream_id
                    /\ emitted[n].session_id = sends[k].session_id
                    /\ emitted[n].event = sends[k].event.id
              /\ \A n \in outs, m \in alerts : n < m

C15_StopIdempotent ==
    [][ StreamCall("stopStream") =>
          LET id == lastStreamOp'.id
          IN  /\ ~lastStreamOp'.threw
              /\ id \notin DOMAIN streams'
              /\ \A s \in DOMAIN sessionStreams' :
                    /\ sessionStreams'[s] # << >>
                    /\ \A i \in 1..Len(sessionStreams'[s]) : sessionStreams'[s][i] # id
              /\ eventBuffer' = eventBuffer
              /\ \A st \in (DOMAIN streams) \ {id} :
                    st \in DOMAIN streams' /\ streams'[st] = streams[st]
              /\ \A s \in DOMAIN sessionStreams :
                    SetDelete(sessionStreams[s], id) # << >>
                    => /\ s \in DOMAIN sessionStreams'
                       /\ sessionStreams'[s] = SetDelete(sessionStreams[s], id)
              /\ getStreamInfoIsNull(id) =>
                    /\ streams' = streams
                    /\ sessionStreams' = sessionStreams
      ]_vars

\* a stream was started, stopped, and stopped a second time
C15_Witness ==
    /\ lastStreamOp.op = "stopStream"
    /\ ~lastStreamOp.wasActive
    /\ lastStreamOp.id < nextId
    /\ invoked = << >>
    /\ streams = << >>
    /\ sessionStreams = << >>

\* the ids of the events the step replayed, in the order they were handed to
\* sendEventToStream
ReplayedIds ==
    LET isReplay(x) == x.via = "replay"
        replayed == SelectSeq(SubSeq(sends', Len(sends) + 1, Len(sends')), isReplay)
    IN  [ i \in 1..Len(replayed) |-> replayed[i].event.id ]

\* the ids of the most recent min(20, number buffered) events of the buffer
RecentIds(sessionId) ==
    IF sessionId \in DOMAIN eventBuffer
    THEN LastN(IdsOf(eventBuffer[sessionId]), ReplayCount)
    ELSE << >>

\* the ids of the events broadcastEvent was invoked with for a session, in order
RECURSIVE InvokedIds(_, _)
InvokedIds(calls_, sessionId) ==
    IF calls_ = << >> THEN << >>
    ELSE IF Head(calls_).session_id = sessionId
         THEN <<Head(calls_).event>> \o InvokedIds(Tail(calls_), sessionId)
         ELSE InvokedIds(Tail(calls_), sessionId)

\* the replay buffer of every session holds the most recent bufferSize events
\* broadcast to it, in order
BufferBounded ==
    \A s \in DOMAIN eventBuffer :
        /\ Len(eventBuffer[s]) <= bufferSize
        /\ IdsOf(eventBuffer[s]) = LastN(InvokedIds(invoked, s), bufferSize)

\* the stream is registered and active
Registered(id, sessionId) ==
    /\ id \in DOMAIN streams
    /\ streams[id].isActive
    /\ streams[id].sessionId = sessionId
    /\ sessionId \in DOMAIN sessionStreams
    /\ \E i \in 1..Len(sessionStreams[sessionId]) : sessionStreams[sessionId][i] = id

CleanupCall == opCount' = opCount + 1 /\ lastOp'.op = "cleanup"

\* sessions older than the configured timeout when cleanup runs
Older == { s \in DOMAIN sessions : now - sessions[s].start_time > sessionTimeoutMs }

\* C16: a cleanup run at time now removes exactly the sessions whose age
\* (now minus creation time) is greater than the configured timeout, each
\* with its session record and its event history together; every session
\* that is not older is left unchanged whatever its status, and afterwards
\* getSession is null and getSessionEvents is empty for a removed session.
C16_AgeBasedExpiry ==
    [][ CleanupCall =>
          /\ DOMAIN sessions' = (DOMAIN sessions) \ Older
          /\ DOMAIN sessionEvents' = (DOMAIN sessionEvents) \ Older
          /\ \A s \in (DOMAIN sessions) \ Older :
                /\ sessions'[s] = sessions[s]
                /\ sessionEvents'[s] = sessionEvents[s]
          /\ \A s \in Older :
                /\ ~hasSession(s)'
                /\ getSessionEvents(s)' = << >> ]_vars

\* cleanup has just removed a session that held events and kept a completed
\* session whose age equals the timeout
C16_Witness ==
    /\ lastOp.op = "cleanup"
    /\ \E s \in lastOp.removed : ~hasSession(s) /\ s \notin DOMAIN sessionEvents
    /\ \E s \in DOMAIN sessions :
          /\ sessions[s].status = "completed"
          /\ lastOp.at - sessions[s].start_time = sessionTimeoutMs
          /\ sessionEvents[s] # << >>
    /\ nextId = 3

(***************************************************************************)
(* Properties of the activity tree and the exports (checked under          *)
(* SpecTree).                                                              *)
(***************************************************************************)
\* the nodes reachable from a node, parents before children
RECURSIVE NodesOf(_), NodesOfAll(_)
NodesOf(node) == <<node>> \o NodesOfAll(node.children)

NodesOfAll(nodes) ==
    IF nodes = << >> THEN << >>
    ELSE NodesOf(Head(nodes)) \o NodesOfAll(Tail(nodes))

\* the nodes of a tree returned by buildActivityTree
TreeNodes(tree) ==
    IF tree.root_task.id = NoId THEN << >> ELSE NodesOf(tree.root_task)

\* how often an id occurs in a sequence of nodes, events or lines
Occurrences(ids, id) == Cardinality({ i \in 1..Len(ids) : ids[i] = id })

\* the tree of session s1 with completed events included and the default depth
FullTree == buildActivityTree("s1", DefaultIncludeCompleted, DefaultMaxDepth)

Retained == getSessionEvents("s1")

\* the retained event has a parentId that is the id of a retained event
Resolved(e) == \E i \in 1..Len(Retained) : Retained[i].id = e.parent_id

\* the retained events attached to the event with this id, in history order
AttachedTo(id) ==
    LET under(e) == e.parent_id = id
    IN  IdsOf(SelectSeq(Retained, under))

RootCandidates ==
    LET candidate(e) == e.parent_id = NoId \/ ~Resolved(e)
    IN  SelectSeq(Retained, candidate)

\* C18: a retained event whose parentId resolves to no retained event of the
\* session (the parent never arrived or was evicted) is still present in the
\* tree built by buildActivityTree.
C18_UnresolvedParentKept ==
    \A i \in 1..Len(Retained) :
        (Retained[i].parent_id # NoId /\ ~Resolved(Retained[i])) =>
            Occurrences(IdsOf(TreeNodes(FullTree)), Retained[i].id) = 1

\* C19: if a root candidate of the session is a task-type event, the earliest
\* such candidate is the tree root; otherwise the root is a synthetic node
\* built from the session's root task description, status and duration with
\* all root candidates as its children in history order.
C19_RootSelection ==
    LET isTask(e) == IsTaskType(e.event_type)
        tasks     == SelectSeq(RootCandidates, isTask)
        root      == FullTree.root_task
    IN  (hasSession("s1") /\ Len(Retained) > 0) =>
            IF Len(tasks) > 0
            THEN root.id = tasks[1].id
            ELSE /\ root.id = SyntheticRootId
                 /\ root.name = sessions["s1"].root_task
                 /\ root.status = sessions["s1"].status
                 /\ root.duration_ms = sessions["s1"].metrics.total_duration_ms
                 /\ IdsOf(root.children) = IdsOf(RootCandidates)

\* the ids of the nodes the lines of a tree export show
LineIds(data) == [ i \in 1..Len(data.lines) |-> data.lines[i].of ]

\* C20: the json export and the tree exports (text, claude_code_log) each
\* account for every retained event: each is one entry of the json export
\* and one line of the tree export.  Stated for histories in which every
\* parentId resolves, exported with the default options, so that no declared
\* filter and no unresolved parent is involved.
C20_ExportCoverage ==
    ( /\ lastOp.op = "export_session"
      /\ lastOp.error = ""
      /\ \A i \in 1..Len(Retained) :
            Retained[i].parent_id = NoId \/ Resolved(Retained[i]) ) =>
        IF lastOp.format = "json"
        THEN lastOp.data.events = Retained
        ELSE \A i \in 1..Len(Retained) :
                 Occurrences(LineIds(lastOp.data), Retained[i].id) = 1

\* the id of the node under which the node with this id hangs in a sequence
\* of tree nodes (NoId for the root and for an id that is not in the tree)
ParentIn(nodes, id) ==
    IF \E k \in 1..Len(nodes) : \E i \in 1..Len(nodes[k].children) :
           nodes[k].children[i].id = id
    THEN nodes[CHOOSE k \in 1..Len(nodes) : \E i \in 1..Len(nodes[k].children) :
                   nodes[k].children[i].id = id].id
    ELSE NoId

\* the tree of session s1 without completed events, at the default depth
OpenTree == buildActivityTree("s1", FALSE, DefaultMaxDepth)

\* C21: include_completed = false removes only successfully terminated
\* leaves: every non-success event that is in the tree built with
\* include_completed = true is also in the tree built with
\* include_completed = false, under the same parent.
C21_OnlyCompletedLeavesExcluded ==
    LET full == TreeNodes(FullTree)
        open == TreeNodes(OpenTree)
    IN  \A k \in 1..Len(full) :
            (full[k].id # SyntheticRootId /\ full[k].status # "success") =>
                /\ Occurrences(IdsOf(open), full[k].id) = 1
                /\ ParentIn(open, full[k].id) = ParentIn(full, full[k].id)

\* the nodes reachable from a node with their depths, parents before children
RECURSIVE LevelsOf(_, _), LevelsOfAll(_, _)
LevelsOf(node, depth) ==
    <<[ id |-> node.id, depth |-> depth, children |-> IdsOf(node.children) ]>>
        \o LevelsOfAll(node.children, depth + 1)

LevelsOfAll(nodes, depth) ==
    IF nodes = << >> THEN << >>
    ELSE LevelsOf(Head(nodes), depth) \o LevelsOfAll(Tail(nodes), depth)

\* the nodes of a tree returned by buildActivityTree, root at depth 0
TreeLevels(tree) ==
    IF tree.root_task.id = NoId THEN << >> ELSE LevelsOf(tree.root_task, 0)

\* a depth no tree of the runs reaches
Unlimited == MaxOps + DefaultMaxDepth

\* C22: for every history and every max_depth = d >= 0 the returned tree has
\* no node at depth greater than d (root at depth 0), every node at depth d
\* has an empty children list even when events are attached below it, and
\* the nodes at depth less than d keep all their children: the tree is the
\* tree built without a depth limit, cut below depth d.
C22_DepthBound ==
    \A c \in BOOLEAN, d \in 0..DefaultMaxDepth :
        LET cut  == TreeLevels(buildActivityTree("s1", c, d))
            deep == TreeLevels(buildActivityTree("s1", c, Unlimited))
            kept(level) == level.depth <= d
            expected == SelectSeq(deep, kept)
        IN  /\ Len(cut) = Len(expected)
            /\ \A k \in 1..Len(cut) :
                  /\ cut[k].id = expected[k].id
                  /\ cut[k].depth = expected[k].depth
                  /\ cut[k].depth <= d
                  /\ cut[k].depth = d => cut[k].children = << >>
                  /\ cut[k].depth < d => cut[k].children = expected[k].children

\* a tree was just built with max_depth = 1 from a history with an event
\* attached two levels below the root: the root's child has lost its child
C22_Witness ==
    /\ lastOp.op = "buildActivityTree"
    /\ lastOp.max_depth = 1
    /\ lastOp.include_completed
    /\ Len(TreeNodes(FullTree)) = 3
    /\ Len(FullTree.root_task.children) = 1
    /\ Len(FullTree.root_task.children[1].children) = 1
    /\ Len(lastOp.tree.root_task.children) = 1
    /\ lastOp.tree.root_task.children[1].children = << >>

C24_CreateIdempotent ==
    lastOp.op = "createSession" =>
        LET id == lastOp.sessionId
        IN  IF lastOp.existed
            THEN /\ sessions = lastOp.before.sessions
                 /\ sessionEvents = lastOp.before.sessionEvents
                 /\ lastOp.ret = lastOp.before.sessions[id]
            ELSE /\ hasSession(id)
                 /\ lastOp.ret = sessions[id]
                 /\ sessions[id].root_task = lastOp.rootTask
                 /\ sessions[id].start_time = lastOp.at
                 /\ sessions[id].status = "active"
                 /\ sessions[id].active_operations = << >>
                 /\ \A f \in DOMAIN sessions[id].metrics : sessions[id].metrics[f] = 0
                 /\ getSessionEvents(id) = << >>
                 /\ \A other \in (DOMAIN lastOp.before.sessions) \ { id } :
                       /\ sessions[other] = lastOp.before.sessions[other]
                       /\ sessionEvents[other] = lastOp.before.sessionEvents[other]

\* createSession was just called with another root task, at a later time, on
\* a completed session that holds an event
C24_Witness ==
    /\ lastOp.op = "createSession"
    /\ lastOp.existed
    /\ sessions[lastOp.sessionId].root_task # lastOp.rootTask
    /\ sessions[lastOp.sessionId].start_time < lastOp.at
    /\ sessions[lastOp.sessionId].status = "completed"
    /\ getSessionEvents(lastOp.sessionId) # << >>

\* a counter of a session's metrics, 0 while the session does not exist
Counter(sessionMap, s, f) ==
    IF s \in DOMAIN sessionMap THEN sessionMap[s].metrics[f] ELSE 0

\* 1 when the condition holds, else 0
OneIf(condition) == IF condition THEN 1 ELSE 0

\* C25: each addEvent increases total_tools_used by exactly 1 iff the event is
\* tool-type with status success, total_mcp_calls by exactly 1 iff it is
\* mcp-type with status success, and error_count by exactly 1 iff its status
\* is error, whatever its type; no other operation, and no eviction from the
\* bounded history, changes these counters.
C25_Metrics ==
    [][ \A s \in SessionIds :
          LET e == lastOp'.event
          IN  IF /\ opCount' = opCount + 1
                 /\ lastOp'.op = "addEvent"
                 /\ lastOp'.sessionId = s
              THEN /\ Counter(sessions', s, "total_tools_used") =
                        Counter(sessions, s, "total_tools_used")
                          + OneIf(IsToolType(e.event_type) /\ e.status = "success")
                   /\ Counter(sessions', s, "total_mcp_calls") =
                        Counter(sessions, s, "total_mcp_calls")
                          + OneIf(IsMcpType(e.event_type) /\ e.status = "success")
                   /\ Counter(sessions', s, "error_count") =
                        Counter(sessions, s, "error_count") + OneIf(e.status = "error")
              ELSE \A f \in { "total_tools_used", "total_mcp_calls", "error_count" } :
                        Counter(sessions', s, f) = Counter(sessions, s, f) ]_vars

\* a session has counted a successful tool call, a successful mcp call and an
\* error although its history has evicted one of the three events
C25_Witness ==
    \E s \in DOMAIN sessions :
        /\ lastOp.op = "addEvent"
        /\ Len(appended[s]) > maxEventsPerSession
        /\ Len(getSessionEvents(s)) = maxEventsPerSession
        /\ sessions[s].metrics.total_tools_used = 1
        /\ sessions[s].metrics.total_mcp_calls = 1
        /\ sessions[s].metrics.error_count = 1

(***************************************************************************)
(* Properties of lookups (checked under SpecLookup).                       *)
(***************************************************************************)
\* the last call named a session that was not in the store
UnknownSession ==
    /\ lastOp.op \in { "getSession", "getSessionEvents", "buildActivityTree",
                       "updateSessionStatus" }
    /\ lastOp.sessionId \notin DOMAIN lastOp.before.sessions

\* C26: for a session id that is not in the store getSession returns null,
\* getSessionEvents returns an empty sequence, buildActivityTree returns a
\* tree with a null root and updateSessionStatus does nothing; none of them
\* creates the session or changes any stored state.
C26_UnknownSession ==
    UnknownSession =>
        /\ sessions = lastOp.before.sessions
        /\ sessionEvents = lastOp.before.sessionEvents
        /\ ~hasSession(lastOp.sessionId)
        /\ lastOp.sessionId \notin DOMAIN sessionEvents
        /\ lastOp.op = "getSession" => lastOp.ret = NoSession
        /\ lastOp.op = "getSessionEvents" => lastOp.ret = << >>
        /\ lastOp.op = "buildActivityTree" => lastOp.tree.root_task = NoNode

\* updateSessionStatus was just called on an unknown session while another
\* session with events is in the store
C26_Witness ==
    /\ UnknownSession
    /\ lastOp.op = "updateSessionStatus"
    /\ \E s \in DOMAIN sessions : getSessionEvents(s) # << >>
(***************************************************************************)
(* Properties of the log_event tool                                        *)
(***************************************************************************)
\* an event the schema of the protocol does not admit
Malformed(e) ==
    \/ e.timestamp = NoTime
    \/ e.session_id = ""
    \/ e.event_type \notin EVENT_TYPES
    \/ e.status \notin EVENT_STATUS
    \/ e.duration_ms < 0
    \/ /\ e.display_info # NoDisplayInfo
       /\ ~(DOMAIN e.display_info \subseteq { "name", "description", "icon", "color" })

\* the ids addEvent stored for session s, given the record of appends
StoredFor(record, s) ==
    IF s \in DOMAIN record THEN { record[s][i] : i \in DOMAIN record[s] } ELSE {}

CallerSafe(e) ==
    /\ e.isMcp
    /\ e.code \in { "InvalidRequest", "InternalError" }

\* the calls that have ended by throwing to their caller
Surfaced == { c \in CallIds : calls[c].pc = "done" /\ calls[c].outcome = "threw" }

\* the calls an open breaker turned away before the first attempt
Rejected == { c \in Surfaced : calls[c].admitted = "rejected" }

\* the calls that have returned a result
Succeeded == { c \in CallIds : calls[c].pc = "done" /\ calls[c].outcome = "returned" }

\* C28 as stated: every call that surfaces an error has logged exactly one
\* failed request and the error, and throws under one of the four
\* classifications; a call in backoff has logged nothing, and a call that
\* succeeded has logged exactly one successful request.
C28_FailureRecorded ==
    /\ \A c \in Surfaced :
          /\ calls[c].requests = <<FALSE>>
          /\ Len(calls[c].errors) = 1
          /\ CallerSafe(calls[c].value)
    /\ \A c \in CallIds : calls[c].pc = "backoff" => calls[c].requests = << >>
    /\ \A c \in Succeeded : calls[c].requests = <<TRUE>>

\* C28, amended: a call that surfaces an error after its attempts were
\* exhausted has logged exactly one failed request and the error the loop
\* ended with, and throws either the McpError the operation itself threw,
\* unchanged, or an error of one of the four classifications; a call turned
\* away by an open breaker has logged nothing and throws an internal error;
\* a call in backoff has logged nothing, and a call that succeeded has
\* logged exactly one successful request and no error.
C28_TerminalFailureRecorded ==
    /\ \A c \in Surfaced \ Rejected :
          /\ calls[c].requests = <<FALSE>>
          /\ calls[c].errors = << calls[c].lastError >>
          /\ \/ calls[c].lastError.isMcp /\ calls[c].value = calls[c].lastError
             \/ ~calls[c].lastError.isMcp /\ CallerSafe(calls[c].value)
    /\ \A c \in Rejected :
          /\ calls[c].requests = << >>
          /\ calls[c].errors = << >>
          /\ CallerSafe(calls[c].value)
    /\ \A c \in CallIds :
          calls[c].pc = "backoff" => calls[c].requests = << >> /\ calls[c].errors = << >>
    /\ \A c \in Succeeded :
          calls[c].requests = <<TRUE>> /\ calls[c].errors = << >>

\* a call of the breaker-guarded wrapper has thrown after a retried attempt,
\* with one failed request logged, and its failure has opened the breaker
C28_Witness ==
    \E c \in Surfaced \ Rejected :
        /\ calls[c].attempt > 0
        /\ calls[c].requests = <<FALSE>>
        /\ calls[c].w.circuitBreaker
        /\ isCircuitOpen(calls[c].w.context)

(***************************************************************************)
(* Properties of the health status                                         *)
(***************************************************************************)
\* the last call was getHealthStatus
HealthRead == lastOp.op = "getHealthStatus"

\* errors / total > pct / 100 * num / den
ErrorRateAbove(op, num, den) ==
    op.total > 0 /\ 100 * den * op.errors > num * op.thresholds.error_rate_pct * op.total

\* severity of a reading: 2 past the critical mark, 1 past the warning
\* mark, 0 otherwise
Severity(pastCritical, pastWarning) ==
    IF pastCritical THEN 2 ELSE IF pastWarning THEN 1 ELSE 0

Max3(a, b, c) ==
    IF a >= b /\ a >= c THEN a ELSE IF b >= c THEN b ELSE c

StatusOf(severity) ==
    IF severity = 2 THEN "critical" ELSE IF severity = 1 THEN "warning" ELSE "healthy"

\* C29 as stated: the status is critical exactly when memory, error rate or
\* average latency exceeds its cap; short of that it is warning when a
\* metric is past its warning fraction of the cap, and healthy otherwise.
C29_MaxSeverity ==
    HealthRead =>
        LET t == lastOp.thresholds
        IN  lastOp.status =
              StatusOf(Max3(
                Severity(lastOp.memory_mb > t.memory_mb,
                         10 * lastOp.memory_mb > 8 * t.memory_mb),
                Severity(ErrorRateAbove(lastOp, 1, 1), ErrorRateAbove(lastOp, 1, 2)),
                Severity(lastOp.avg_response_time_ms > t.response_time_ms,
                         lastOp.avg_response_time_ms > t.response_time_ms)))

\* C29, amended: the status is the maximum severity over the three
\* metrics, where memory is critical above its cap and warning above 80%
\* of it, the error rate is critical above its cap and warning above 50%
\* of it, and the average latency is critical above twice its cap and
\* warning above the cap.
C29_MaxSeverityLatencyDoubled ==
    HealthRead =>
        LET t == lastOp.thresholds
        IN  lastOp.status =
              StatusOf(Max3(
                Severity(lastOp.memory_mb > t.memory_mb,
                         10 * lastOp.memory_mb > 8 * t.memory_mb),
                Severity(ErrorRateAbove(lastOp, 1, 1), ErrorRateAbove(lastOp, 1, 2)),
                Severity(lastOp.avg_response_time_ms > 2 * t.response_time_ms,
                         lastOp.avg_response_time_ms > t.response_time_ms)))

\* the status was read as warning while the average latency alone was past
\* its cap, memory and error rate being below their warning marks
C29_Witness ==
    /\ HealthRead
    /\ lastOp.status = "warning"
    /\ lastOp.avg_response_time_ms > lastOp.thresholds.response_time_ms
    /\ 10 * lastOp.memory_mb <= 8 * lastOp.thresholds.memory_mb
    /\ lastOp.total > 0
    /\ ~ErrorRateAbove(lastOp, 1, 2)

(***************************************************************************)
(* Properties of the messages surfaced in production                       *)
(***************************************************************************)
\* the messages written out in transformError and getSafeErrorMessage
GenericMessages ==
    { "Invalid request parameters", "Request timed out", "Invalid request format",
      "Invalid request syntax", "Internal server error",
      "Operation timed out", "Service unavailable" }

\* message texts an internal error may carry
MessageTexts ==
    { "", "Temporary failure", "Session not found", "Tool not found",
      "connect ECONNREFUSED 10.0.0.7:5432" }

\* the same error with another message text
Reworded(error, message) == [ error EXCEPT !.message = message ]

\* the calls whose attempts ended with an error that was then surfaced
Failed == Surfaced \ Rejected

\* C30 as stated: in production the message of an error surfaced by the
\* wrapper or by handleToolError is one of the generic messages (after the
\* tool name, for handleToolError), and the error surfaced is the same
\* whatever the message text of the original error.
C30_ProductionMessages ==
    isProduction =>
      /\ \A c \in Failed :
            /\ calls[c].value.message \in GenericMessages
            /\ \A text \in MessageTexts :
                  transformError(Reworded(calls[c].lastError, text)) = calls[c].value
      /\ lastOp.op = "handleToolError" =>
            /\ lastOp.ret.message \in
                  { lastOp.toolName \o " failed: " \o g : g \in GenericMessages }
            /\ \A text \in MessageTexts :
                  handleToolError(Reworded(lastOp.error, text), lastOp.toolName)
                     = lastOp.ret

\* C30, amended: in production an McpError thrown by the wrapped operation
\* is surfaced unchanged, message included; for every other error the
\* surfaced error has a generic message and is the same whatever the
\* original message text.  The message handleToolError returns is the tool
\* name followed by a generic message and is the same whatever the original
\* message text; its code is the same for texts that agree on containing
\* 'not found'.
C30_ProductionMessagesButMcp ==
    isProduction =>
      /\ \A c \in Failed :
            IF calls[c].lastError.isMcp
            THEN calls[c].value = calls[c].lastError
            ELSE /\ calls[c].value.message \in GenericMessages
                 /\ \A text \in MessageTexts :
                       transformError(Reworded(calls[c].lastError, text)) = calls[c].value
      /\ lastOp.op = "handleToolError" =>
            /\ lastOp.ret.message \in
                  { lastOp.toolName \o " failed: " \o g : g \in GenericMessages }
            /\ \A text \in MessageTexts :
                  LET other == handleToolError(Reworded(lastOp.error, text),
                                               lastOp.toolName)
                  IN  /\ other.message = lastOp.ret.message
                      /\ includesNotFound(text) = includesNotFound(lastOp.error.message)
                            => other = lastOp.ret

\* in production a call has surfaced an error whose original carried a
\* message of its own, and handleToolError has been handed such an error
C30_Witness ==
    /\ isProduction
    /\ \E c \in Failed :
          /\ ~calls[c].lastError.isMcp
          /\ calls[c].lastError.message # ""
          /\ calls[c].value.message # calls[c].lastError.message
    /\ lastOp.op = "handleToolError"
    /\ ~lastOp.error.isMcp
    /\ lastOp.error.message \notin GenericMessages

(***************************************************************************)
(* Properties of createEvent                                               *)
(***************************************************************************)
\* C31: the event createEvent returns for a non-empty session id, an
\* enumerated event type and status and default optional parameters is
\* accepted by validateEvent.
C31_CreatedEventValid ==
    lastOp.op = "createEvent" => lastOp.valid

(***************************************************************************)
(* Properties of cancellation                                              *)
(***************************************************************************)
\* the last call was a broadcast during which an observer stopped a stream
StoppedMidBroadcast ==
    /\ lastStreamOp.op = "broadcastEvent"
    /\ lastStreamOp.script = <<"stop">>

\* C32: no update is emitted for a stream after stopStream has been executed
\* for it, not even the slow-operation alert of the event that was being
\* delivered when an observer stopped the stream; the stopped stream's
\* counter no longer changes, and every other active stream of the session
\* is still sent the event being broadcast.
C32_CancelledStreamSilent ==
    /\ \A i \in DOMAIN emitted : emitted[i].registered
    /\ StoppedMidBroadcast =>
          \A id \in DOMAIN streams :
              streams[id].sessionId = lastStreamOp.sessionId =>
                  \E i \in DOMAIN sends :
                      /\ sends[i].stream_id = id
                      /\ sends[i].event.id = lastStreamOp.event.id

(***************************************************************************)
(* Properties of the stream lifecycle                                      *)
(***************************************************************************)
\* C33: when stopStream has stopped a stream, the stream leaves its
\* session's subscriber set at once while its record stays in the engine,
\* marked not active, until the sweep collects it past the grace age; the
\* sweep leaves every active stream as it was.
C33_StoppedRecordKept ==
    /\ ( /\ lastStreamOp.op = "stopStream"
         /\ lastStreamOp.wasActive
         /\ now = lastStreamOp.at ) =>
            /\ \A s \in DOMAIN sessionStreams :
                  \A i \in DOMAIN sessionStreams[s] :
                      sessionStreams[s][i] # lastStreamOp.id
            /\ lastStreamOp.id \in DOMAIN streams
            /\ ~streams[lastStreamOp.id].isActive
    /\ lastStreamOp.op = "cleanup" =>
            \A id \in DOMAIN lastStreamOp.before :
                lastStreamOp.before[id].isActive =>
                    id \in DOMAIN streams /\ streams[id] = lastStreamOp.before[id]

(***************************************************************************)
(* Properties of the tree over histories with cyclic parents (SpecCycle)   *)
(***************************************************************************)
\* the retained event is on a cycle of parent references of length 1 or 2
OnCycle(events, i) ==
    \/ events[i].parent_id = events[i].id
    \/ \E j \in 1..Len(events) :
          /\ j # i
          /\ events[i].parent_id = events[j].id
          /\ events[j].parent_id = events[i].id

\* the history the tree of the last build was built from
BuiltFrom ==
    IF "s1" \in DOMAIN lastOp.before.sessionEvents
    THEN lastOp.before.sessionEvents["s1"] ELSE << >>

\* C34: whatever the parent ids of the retained events, themselves and
\* cycles included, buildActivityTree returns, and the nodes reachable from
\* the returned root form a finite tree: no id occurs twice among them and
\* every one of them but a synthetic root is a retained event.
C34_TreeWithoutRepeats ==
    lastOp.op = "buildActivityTree" =>
        LET reached == TreeNodes(lastOp.tree)
            history == BuiltFrom
        IN  /\ \A i, j \in 1..Len(reached) :
                  reached[i].id = reached[j].id => i = j
            /\ \A i \in 1..Len(reached) :
                  \/ i = 1 /\ reached[i].id = SyntheticRootId
                  \/ \E k \in 1..Len(history) : history[k].id = reached[i].id
            /\ Len(reached) <= Len(history) + 1

\* a tree with a root and a child has been built from a history that also
\* holds an event that is its own parent
C34_Witness ==
    /\ lastOp.op = "buildActivityTree"
    /\ lastOp.max_depth = DefaultMaxDepth
    /\ Len(TreeNodes(lastOp.tree)) >= 2
    /\ \E i \in 1..Len(BuiltFrom) : OnCycle(BuiltFrom, i)
    /\ \E i \in 1..Len(BuiltFrom) : BuiltFrom[i].parent_id = BuiltFrom[i].id

(***************************************************************************)
(* Properties of the active operations (checked under SpecStore)           *)
(***************************************************************************)
\* how many events of a history have status started or running
Opening(events) ==
    Cardinality({ i \in 1..Len(events) : events[i].status \in { "started", "running" } })

EndedInFailure(c) ==
    /\ calls[c].pc = "awaiting"
    /\ calls'[c].pc = "done"
    /\ \/ calls'[c].outcome = "threw"
       \/ calls'[c].value.message = "fallback"

\* the breakers of the contexts other than ctx are what they were
OthersUntouched(ctx) ==
    \A other \in Contexts \ { ctx } :
        /\ (other \in DOMAIN circuitBreakers') = (other \in DOMAIN circuitBreakers)
        /\ other \in DOMAIN circuitBreakers =>
               circuitBreakers'[other] = circuitBreakers[other]

\* C36: with the breaker enabled, a call that ends in failure adds exactly
\* one to the failure count of its context, whatever the number of attempts
\* it made, the class of its error and whether a fallback returned a
\* result, and an attempt that is retried adds nothing; the failure that
\* brings the count to the threshold leaves the breaker open; and no call
\* changes the breaker of a context other than its own.
C36_OneFailurePerCall ==
    [][ \A c \in CallIds :
          /\ EndedInFailure(c) =>
                LET ctx == calls[c].w.context
                IN  /\ Failures(ctx)' = Failures(ctx) + 1
                    /\ Failures(ctx)' >= BreakerThreshold => BreakerState(ctx)' = "open"
                    /\ OthersUntouched(ctx)
          /\ (calls[c].pc = "awaiting" /\ calls'[c].pc = "backoff") =>
                circuitBreakers' = circuitBreakers
          /\ (calls'[c] # calls[c] /\ calls'[c].pc # "idle") =>
                OthersUntouched(calls'[c].w.context)
      ]_vars

\* the fifth failing call of a context, a retried one whose fallback
\* returned, has opened the breaker, and the other context's breaker still
\* counts one validation error
C36_Witness ==
    \E c \in CallIds :
        /\ calls[c].pc = "done"
        /\ calls[c].w = FallbackWrapper
        /\ calls[c].attempt = 1
        /\ calls[c].value.message = "fallback"
        /\ Failures("test_function") = BreakerThreshold
        /\ BreakerState("test_function") = "open"
        /\ Failures("tool:log_event") = 1

(***************************************************************************)
(* Properties of rejected invocations (checked under SpecBreaker)          *)
(***************************************************************************)
\* C37: an invocation rejected by the open breaker leaves the breaker as it
\* was and records no request and no error; and an invocation made when more
\* than the cool-down window has passed since the last recorded failure of
\* its context is admitted and calls the wrapped function.
C37_RejectionLeavesBreaker ==
    [][ \A c \in CallIds :
          (Invoked(c) /\ calls'[c].w.circuitBreaker) =>
             LET ctx == calls'[c].w.context
             IN  /\ calls'[c].admitted = "rejected" =>
                       /\ circuitBreakers' = circuitBreakers
                       /\ calls'[c].requests = << >>
                       /\ calls'[c].errors = << >>
                       /\ calls'[c].fnCalls = 0
                 /\ ( /\ ctx \in DOMAIN circuitBreakers
                      /\ now - circuitBreakers[ctx].lastFailure > BreakerTimeout ) =>
                       /\ calls'[c].admitted # "rejected"
                       /\ calls'[c].pc = "awaiting"
                       /\ calls'[c].fnCalls = 1
      ]_vars

\* an invocation was rejected, and one made later, after the cool-down
\* counted from the last failure, is calling the wrapped function
C37_Witness ==
    \E c, d \in CallIds :
        /\ calls[d].pc = "done"
        /\ calls[d].admitted = "rejected"
        /\ calls[c].pc = "awaiting"
        /\ calls[c].admitted = "half-open"
        /\ calls[c].fnCalls = 1
        /\ now - circuitBreakers[calls[c].w.context].lastFailure > BreakerTimeout
        /\ Failures(calls[c].w.context) = BreakerThreshold

(***************************************************************************)
(* Consistency of the store (checked under SpecExpiry)                     *)
(***************************************************************************)
\* C38: after any sequence of createSession, addEvent, updateSessionStatus
\* and cleanup the session ids with a session record are the session ids
\* with an event history, and every addEvent has stored its event.
C38_RecordsMatchHistories ==
    /\ DOMAIN sessions = DOMAIN sessionEvents
    /\ lastOp.op = "addEvent" =>
          /\ lastOp.stored
          /\ lastOp.sessionId \in DOMAIN sessionEvents
          /\ \E i \in 1..Len(sessionEvents[lastOp.sessionId]) :
                sessionEvents[lastOp.sessionId][i] = lastOp.ret

\* a session expired and was removed, and an addEvent to its id has
\* created it again
C38_Witness ==
    /\ lastOp.op = "addEvent"
    /\ ~lastOp.existed
    /\ lastOp.ret.id = 2
    /\ Len(sessionEvents[lastOp.sessionId]) = 1
    /\ DOMAIN sessions = { lastOp.sessionId }

(***************************************************************************)
(* Consistency of the subscriptions (checked under SpecLife)               *)
(***************************************************************************)
\* the stream id is in the subscriber set of the session
Subscribed(s, id) ==
    /\ s \in DOMAIN sessionStreams
    /\ \E i \in DOMAIN sessionStreams[s] : sessionStreams[s][i] = id

\* C39: after any sequence of startStream, stopStream, broadcastEvent (with
\* deliveries that fail or not) and cleanup, a stream id is in the subscriber
\* set of session s iff the engine holds a record for it with that session
\* id and isActive true; no subscriber set is empty; and a stream id is in
\* at most one subscriber set, once.
C39_SubscriptionsMatchRecords ==
    /\ \A s \in SessionIds : \A id \in 1..nextId :
          Subscribed(s, id) <=>
             ( /\ id \in DOMAIN streams
               /\ streams[id].sessionId = s
               /\ streams[id].isActive )
    /\ \A s \in DOMAIN sessionStreams :
          /\ s \in SessionIds
          /\ sessionStreams[s] # << >>
          /\ \A i, j \in DOMAIN sessionStreams[s] :
                sessionStreams[s][i] = sessionStreams[s][j] => i = j
    /\ \A s, t \in DOMAIN sessionStreams : \A id \in 1..nextId :
          (Subscribed(s, id) /\ Subscribed(t, id)) => s = t

\* a delivery failed and stopped the only stream of its session while the
\* stream of the other session is still subscribed
C39_Witness ==
    /\ lastStreamOp.op = "broadcastEvent"
    /\ lastStreamOp.script = <<"throw">>
    /\ lastStreamOp.sessionId \notin DOMAIN sessionStreams
    /\ Cardinality(DOMAIN streams) = 1
    /\ \E s \in SessionIds \ { lastStreamOp.sessionId } :
          \E id \in DOMAIN streams : Subscribed(s, id)

(***************************************************************************)
(* Session expiry and the broadcast engine (checked under SpecReuse)       *)
(***************************************************************************)
\* the replay buffer of the session
Buffered(s) == IF s \in DOMAIN eventBuffer THEN eventBuffer[s] ELSE << >>

\* C40: the store's cleanup leaves the streams, the subscriber sets and the
\* replay buffers as they were, also those of the sessions it removes;
\* stopStream leaves the replay buffers as they were; so a stream started on
\* a session id, expired or not, is replayed the buffered events, and a
\* log_event for an id without a session creates the session with a
\* history of that one event while the buffer still holds the older events
\* in front of it.
C40_ExpiryLeavesEngine ==
    [][ /\ (opCount' # opCount /\ lastOp'.op = "cleanup") =>
              /\ streams' = streams
              /\ sessionStreams' = sessionStreams
              /\ eventBuffer' = eventBuffer
        /\ (streamOps' # streamOps /\ lastStreamOp'.op = "stopStream") =>
              eventBuffer' = eventBuffer
        /\ (streamOps' # streamOps /\ lastStreamOp'.op = "startStream") =>
              LET s        == lastStreamOp'.sessionId
                  replayed == [ i \in 1..(Len(sends') - Len(sends)) |->
                                  sends'[Len(sends) + i] ]
              IN  /\ IdsOf([ i \in DOMAIN replayed |-> replayed[i].event ])
                        = IdsOf(SliceLast(Buffered(s), ReplayCount))
                  /\ \A i \in DOMAIN replayed :
                        /\ replayed[i].stream_id = lastStreamOp'.id
                        /\ replayed[i].via = "replay"
        /\ (nextId' # nextId /\ lastOp'.op = "addEvent"
                /\ lastOp'.sessionId \notin DOMAIN sessions) =>
              LET s   == lastOp'.sessionId
                  old == Buffered(s)
                  new == eventBuffer'[s]
              IN  /\ sessionEvents'[s] = <<lastOp'.ret>>
                  /\ Len(new) = IF Len(old) < bufferSize THEN Len(old) + 1 ELSE bufferSize
                  /\ new[Len(new)] = lastOp'.ret
                  /\ SubSeq(new, 1, Len(new) - 1) = SliceLast(old, Len(new) - 1)
      ]_vars

\* the session expired after its first event; a stream opened afterwards was
\* replayed that event, and the next log_event re-created the session,
\* whose history holds one event while the buffer holds both
C40_Witness ==
    /\ "s1" \in DOMAIN sessions
    /\ IdsOf(sessionEvents["s1"]) = <<3>>
    /\ IdsOf(Buffered("s1")) = <<1, 3>>
    /\ 2 \in DOMAIN streams
    /\ \E k \in DOMAIN sends :
          /\ sends[k].via = "replay"
          /\ sends[k].event.id = 1
          /\ sends[k].stream_id = 2

====
